---- MODULE Spec2Model ----
(***************************************************************************)
(* agent-guard: documentation-drift detection and remediation.             *)
(*                                                                         *)
(* The module models four parts of the repository, each with its own       *)
(* specification over a shared set of variables:                           *)
(*   SpecCat    categorize() as a function of a staged-path list and a     *)
(*              category list (templates/scripts/pre-commit-doc-check.cjs) *)
(*   SpecCheck  one run of the pre-commit check script, from module load   *)
(*              to process end                                             *)
(*   SpecParse  parseApiResponse() on a response text and an allowlist     *)
(*   SpecSync   one run of the full-sync orchestrator (sync)               *)
(*   SpecLog    the audit log (_audit-log.cjs)                             *)
(*                                                                         *)
(* Strings that the code inspects (paths, patterns, response texts) are    *)
(* sequences of atoms; an atom stands for one or more characters that no   *)
(* operation of the code splits.                                           *)
(***************************************************************************)
EXTENDS Integers, Sequences, FiniteSets, TLC

VARIABLES
    \* ---- categorize / pre-commit check script
    pc,           \* position of the script run
    configFile,   \* agent-docs.config.json on disk: "missing" | "invalid" | "valid"
    verbose,      \* process.argv.includes('--verbose')
    categories,   \* config.categories (ordered category descriptors)
    staged,       \* stagedFiles
    matches,      \* categorize().matches: insertion-ordered <<[id, files]>>
    unmatched,    \* categorize().unmatched
    outcome,      \* which way main() ended
    prompt,       \* lines of buildPrompt(matches) written to stderr
    exitCode,     \* process exit status, -1 while running
    \* ---- parseApiResponse
    ppc,          \* "idle" | "call" | "returned"
    responseText, \* the response text given to the parser
    expectedPaths,\* the allowlist given to the parser
    parsed,       \* the parser's result {files, warnings}
    \* ---- sync (full-sync orchestrator)
    spc,          \* position of the sync run
    syncEngine,   \* config.autoFix.narrative.engine || 'claude-code'
    syncTargets,  \* [architectureFile] ++ additionalNarrativeTargets
    genTotal,     \* number of generator scripts gen() runs
    genRun,       \* number of generator scripts attempted so far
    result,       \* the engine result held by sync
    toWrite,      \* the files of result.files not yet written
    written,      \* the paths written with writeFileSync, in order
    gitStaged,    \* the git add commands after the writes succeeded
    manualPrompts,\* how many times the manual sync prompt was printed
    auditEntries, \* the entries handed to auditLog.logEntry, in order
    \* ---- audit log
    logFile,      \* .agent-guard/log.json: missing, corrupt, or a JSON array
    logHistory,   \* every entry appended since the log was last empty
    logCalls,     \* number of logEntry calls made
    logError,     \* a logEntry call raised an error
    logBefore,    \* what the last logEntry call found on disk, and its entry
    readResult,   \* what the last readLog call returned
    \* ---- invokeApiEngine
    apc,          \* position of the call
    apiEnvKey,    \* process.env[envVarName], "" when unset or empty
    apiDotEnv,    \* the .env file of the project root
    apiTargets,   \* [architectureFile] ++ additionalNarrativeTargets of the config
    apiKey,       \* the local apiKey
    promptBuilt,  \* buildApiPrompt was called
    requestIssued,\* fetch was called
    apiFetch,     \* what the request did
    apiStop,      \* data.stop_reason of a 2xx response
    apiText,      \* responseText of a 2xx response
    apiResult,    \* the result the call returned
    timerArmed,   \* the abort timer is set and not cleared
    \* ---- invokeClaudeCode
    cpc,          \* position of the call
    cPrompt,      \* the prompt argument
    sanitized,    \* the local sanitized
    tempFile,     \* the temporary prompt file: does it exist, and its content
    piped,        \* what the subprocess got on stdin, in a list of at most one text
    unlinkFailed, \* unlinkSync threw in the finally block
    cResult,      \* the result the call returned
    \* ---- classifyError
    kpc,          \* "idle" | "call" | "returned"
    errText,      \* the stderr argument: null, or a text
    errType,      \* the class returned
    \* ---- loadConfig of utils/config.js
    lpc,          \* "idle" | "call" | "returned" | "threw"
    rawFile,      \* the config file: missing, not JSON, or the object it parses to
    loadedConfig, \* the config returned
    \* ---- init: the standing instructions in the agent config file
    agentFile,    \* the agent config file: does it exist, and its content
    initRuns,     \* the init runs so far
    lastRun,      \* the last run: dry or not, what it found, what it generated
    \* ---- buildApiPrompt
    bpc,          \* "idle" | "call" | "returned"
    promptMode,   \* the mode argument
    promptMatches,\* the matches argument: undefined, or a list of <<[id, files]>>
    promptDisk,   \* which target files exist, and how many inventories
    apiPrompt     \* what the call returned: sourceContents and the user message

checkVars == <<pc, configFile, verbose, categories, staged, matches, unmatched,
               outcome, prompt, exitCode>>

parseVars == <<ppc, responseText, expectedPaths, parsed>>

syncVars == <<spc, syncEngine, syncTargets, genTotal, genRun, result, toWrite,
              written, gitStaged, manualPrompts, auditEntries>>

logVars == <<logFile, logHistory, logCalls, logError, logBefore, readResult>>

apiVars == <<apc, apiEnvKey, apiDotEnv, apiTargets, apiKey, promptBuilt, requestIssued,
             apiFetch, apiStop, apiText, apiResult, timerArmed>>

claudeVars == <<cpc, cPrompt, sanitized, tempFile, piped, unlinkFailed, cResult>>

classifyVars == <<kpc, errText, errType>>

configVars == <<lpc, rawFile, loadedConfig>>

initVars == <<agentFile, initRuns, lastRun>>

promptVars == <<bpc, promptMode, promptMatches, promptDisk, apiPrompt>>

pureVars == <<classifyVars, configVars, initVars, promptVars>>

vars == <<checkVars, parseVars, syncVars, logVars, apiVars, claudeVars, pureVars>>

(***************************************************************************)
(* Strings as sequences of atoms.                                          *)
(***************************************************************************)

\* String.prototype.startsWith
StartsWith(f, p) == Len(p) <= Len(f) /\ SubSeq(f, 1, Len(p)) = p

\* the suffix of f after its first k atoms
Drop(f, k) == SubSeq(f, k + 1, Len(f))

(***************************************************************************)
(* Rule compiler: buildTestFunction.                                       *)
(* A regex pattern is a sequence of atoms in which "^" and "$" are the     *)
(* anchors, ".+" is the wildcard and "(" is an unclosed group, which makes *)
(* new RegExp(pattern) throw SyntaxError; every other atom is a literal.   *)
(***************************************************************************)

RegExpCompiles(p) == \A i \in 1..Len(p) : p[i] # "("

RegExpAnchoredStart(p) == p # <<>> /\ Head(p) = "^"

RegExpAnchoredEnd(p) == p # <<>> /\ p[Len(p)] = "$"

\* the pattern without its anchors
RegExpBody(p) ==
    LET a == IF RegExpAnchoredStart(p) THEN Tail(p) ELSE p
    IN  IF a # <<>> /\ a[Len(a)] = "$" THEN SubSeq(a, 1, Len(a) - 1) ELSE a

RECURSIVE MatchHere(_, _, _)
\* does body b match a prefix of f (the whole of f when anchored at the end)
MatchHere(b, f, toEnd) ==
    IF b = <<>> THEN (toEnd => f = <<>>)
    ELSE IF Head(b) = ".+"
         THEN \E k \in 1..Len(f) : MatchHere(Tail(b), Drop(f, k), toEnd)
         ELSE f # <<>> /\ Head(f) = Head(b) /\ MatchHere(Tail(b), Tail(f), toEnd)

\* new RegExp(p).test(f), for a pattern that compiles
RegExpTest(p, f) ==
    IF RegExpAnchoredStart(p)
    THEN MatchHere(RegExpBody(p), f, RegExpAnchoredEnd(p))
    ELSE \E s \in 0..Len(f) : MatchHere(RegExpBody(p), Drop(f, s), RegExpAnchoredEnd(p))

\* cat.test(f): "accept", "reject", or "throw" (SyntaxError from new RegExp)
CatTest(cat, f) ==
    CASE cat.patternType = "exact"      -> IF f = cat.filePattern THEN "accept" ELSE "reject"
      [] cat.patternType = "startsWith" -> IF StartsWith(f, cat.filePattern) THEN "accept" ELSE "reject"
      [] cat.patternType = "regex"      -> IF ~RegExpCompiles(cat.filePattern) THEN "throw"
                                           ELSE IF RegExpTest(cat.filePattern, f) THEN "accept"
                                           ELSE "reject"
      [] OTHER                          -> IF f = cat.filePattern THEN "accept" ELSE "reject"

(***************************************************************************)
(* Change classifier: categorize.                                          *)
(***************************************************************************)

RECURSIVE LastMatch(_, _, _)
\* (a classifier in which the last accepting category wins)
LastMatch(cats, f, i) ==
    IF i > Len(cats) THEN 0
    ELSE LET r    == CatTest(cats[i], f)
             rest == LastMatch(cats, f, i + 1)
         IN  IF r = "throw" \/ rest = -1 THEN -1
             ELSE IF rest # 0 THEN rest
             ELSE IF r = "accept" THEN i ELSE 0

RECURSIVE FirstMatch(_, _, _)
\* the inner loop over CATEGORIES from index i: the index of the first
\* category whose test accepts f, 0 when none does, -1 when a test throws
\* before any accepts
FirstMatch(cats, f, i) ==
    IF i > Len(cats) THEN 0
    ELSE LET r == CatTest(cats[i], f)
         IN  IF r = "throw" THEN -1
             ELSE IF r = "accept" THEN i
             ELSE FirstMatch(cats, f, i + 1)

\* (a push that puts the path at the front of the list)
PushMatchFront(m, id, f) ==
    IF \E k \in 1..Len(m) : m[k].id = id
    THEN [k \in 1..Len(m) |->
            IF m[k].id = id THEN [m[k] EXCEPT !.files = <<f>> \o @] ELSE m[k]]
    ELSE Append(m, [id |-> id, files |-> <<f>>])

\* if (!matches[id]) matches[id] = []; matches[id].push(f)
PushMatch(m, id, f) ==
    IF \E k \in 1..Len(m) : m[k].id = id
    THEN [k \in 1..Len(m) |->
            IF m[k].id = id THEN [m[k] EXCEPT !.files = Append(@, f)] ELSE m[k]]
    ELSE Append(m, [id |-> id, files |-> <<f>>])

\* (a loop body that forgets the matched flag)
CategorizeFileNoFlag(acc, cats, f) ==
    LET i == FirstMatch(cats, f, 1)
    IN  IF acc.threw \/ i = -1 THEN [acc EXCEPT !.threw = TRUE]
        ELSE IF i = 0 THEN [acc EXCEPT !.unmatched = Append(@, f)]
        ELSE [acc EXCEPT !.matches = PushMatch(@, cats[i].id, f),
                         !.unmatched = Append(@, f)]

\* the body of the outer loop for one staged file
CategorizeFile(acc, cats, f) ==
    LET i == FirstMatch(cats, f, 1)
    IN  IF acc.threw \/ i = -1 THEN [acc EXCEPT !.threw = TRUE]
        ELSE IF i = 0 THEN [acc EXCEPT !.unmatched = Append(@, f)]
        ELSE [acc EXCEPT !.matches = PushMatch(@, cats[i].id, f)]

RECURSIVE CategorizeFrom(_, _, _)
CategorizeFrom(acc, cats, files) ==
    IF files = <<>> THEN acc
    ELSE CategorizeFrom(CategorizeFile(acc, cats, Head(files)), cats, Tail(files))

\* categorize(stagedFiles): threw is TRUE when a test threw; the call then
\* returns nothing
Categorize(cats, files) ==
    CategorizeFrom([threw |-> FALSE, matches |-> <<>>, unmatched |-> <<>>], cats, files)

(***************************************************************************)
(* isDocFile and the prompt builder (reference mode): buildPrompt.         *)
(***************************************************************************)

\* config.docsDir || 'docs/'
DocsDir == <<"docs/">>

\* config.agentConfigFile || '.cursorrules'
AgentConfigFile == <<".cursorrules">>

isDocFile(f) == StartsWith(f, DocsDir) \/ f = AgentConfigFile

\* matches[id] is truthy
HasKey(m, id) == \E k \in 1..Len(m) : m[k].id = id

\* matches[id], for a key that is present
FilesOf(m, id) == m[CHOOSE k \in 1..Len(m) : m[k].id = id].files

\* Object.keys(matches).length > 0
hasDocRelevant(m) == Len(m) > 0

\* stagedFiles.some(isDocFile)
docFilesStaged(files) == \E i \in 1..Len(files) : isDocFile(files[i])

\* the number of paths buildPrompt lists per category
PromptCap == 15

\* Array.prototype.slice(0, n)
Take(s, n) == SubSeq(s, 1, IF Len(s) < n THEN Len(s) ELSE n)

\* one line of the prompt: t is the kind of line, name its text (a category
\* name, a doc target, a command), file the path it names, n its count
Line(t, name, file, n) == [t |-> t, name |-> name, file |-> file, n |-> n]

\* (a block that lists every matched path)
CategoryBlockUncapped(cat, files) ==
    <<Line("changed", cat.name, <<>>, 0)>>
    \o [i \in 1..Len(files) |-> Line("read", cat.docTarget, files[i], 0)]
    \o <<Line("blank", "", <<>>, 0)>>

\* the 'Changed <name>:' block of one category with matches
CategoryBlock(cat, files) ==
    <<Line("changed", cat.name, <<>>, 0)>>
    \o [i \in 1..Len(Take(files, PromptCap)) |->
            Line("read", cat.docTarget, Take(files, PromptCap)[i], 0)]
    \o (IF Len(files) > PromptCap
        THEN <<Line("more", "", <<>>, Len(files) - PromptCap)>> ELSE <<>>)
    \o <<Line("blank", "", <<>>, 0)>>

RECURSIVE CategoryBlocksReversed(_, _, _)
\* (a loop that emits the block of the last category first)
CategoryBlocksReversed(cats, m, i) ==
    IF i > Len(cats) THEN <<>>
    ELSE CategoryBlocksReversed(cats, m, i + 1)
         \o (IF HasKey(m, cats[i].id) THEN CategoryBlock(cats[i], FilesOf(m, cats[i].id))
             ELSE <<>>)

RECURSIVE CategoryBlocks(_, _, _)
\* the loop over CATEGORIES that emits the blocks, from index i
CategoryBlocks(cats, m, i) ==
    IF i > Len(cats) THEN <<>>
    ELSE (IF HasKey(m, cats[i].id) THEN CategoryBlock(cats[i], FilesOf(m, cats[i].id))
          ELSE <<>>)
         \o CategoryBlocks(cats, m, i + 1)

RECURSIVE GenCommands(_, _, _, _)
\* the loop that collects the distinct gen commands of the matched categories;
\* "" is a category without genCommand (null)
GenCommands(cats, m, i, acc) ==
    IF i > Len(cats) THEN acc
    ELSE LET c == cats[i].genCommand
         IN  GenCommands(cats, m, i + 1,
                 IF HasKey(m, cats[i].id) /\ c # ""
                    /\ ~\E k \in 1..Len(acc) : acc[k] = c
                 THEN Append(acc, c) ELSE acc)

\* buildPrompt(matches), as the list of its lines
BuildPrompt(cats, m) ==
    LET cmds == GenCommands(cats, m, 1, <<>>)
    IN  <<Line("text", "The following files were changed", <<>>, 0),
          Line("text", "Read each changed file listed below", <<>>, 0),
          Line("blank", "", <<>>, 0)>>
        \o CategoryBlocks(cats, m, 1)
        \o (IF Len(cmds) > 0
            THEN <<Line("text", "After updating, run:", <<>>, 0)>>
                 \o [k \in 1..Len(cmds) |-> Line("cmd", cmds[k], <<>>, 0)]
                 \o <<Line("blank", "", <<>>, 0)>>
            ELSE <<>>)
        \o <<Line("text", "Rules:", <<>>, 0),
             Line("text", "- Read each file BEFORE updating docs", <<>>, 0),
             Line("text", "- Match the existing format", <<>>, 0),
             Line("text", "- Do NOT modify any source code files", <<>>, 0)>>

(***************************************************************************)
(* Response parser: parseApiResponse.                                      *)
(* A response text is a sequence of tokens: "open" is a start tag          *)
(* <updated-file path="...">, "close" the end tag </updated-file>,         *)
(* "sentinel" the marker <no-changes-needed/>, and "text" any other        *)
(* content. The path of a start tag is its attribute value without the     *)
(* surrounding white space; pad says that the value had some.              *)
(***************************************************************************)

Tok(t, path, pad) == [t |-> t, path |-> path, pad |-> pad]

ArchFile == <<"docs/", "ARCHITECTURE.md">>

ReadmeFile == <<"README.md">>

SourceFile == <<"src/", "app.ts">>

Close == Tok("close", <<>>, FALSE)

Text == Tok("text", <<>>, FALSE)

Sentinel == Tok("sentinel", <<>>, FALSE)

\* Array.prototype.includes
Includes(list, x) == \E i \in 1..Len(list) : list[i] = x

\* the index of the first token of kind t at or after position from, 0 if none
IndexOfKind(text, t, from) ==
    IF \E i \in from..Len(text) : text[i].t = t
    THEN CHOOSE i \in from..Len(text) :
            text[i].t = t /\ \A j \in from..(i - 1) : text[j].t # t
    ELSE 0

\* match[1].trim()
TrimmedPath(tok) == tok.path

\* (a loop body without the allowlist test)
ParseBlockUnchecked(acc, filePath, content, expected) ==
    [acc EXCEPT !.files = Append(@, [path |-> filePath, content |-> content])]

\* the body of the while loop for one regex match
ParseBlock(acc, filePath, content, expected) ==
    IF Includes(expected, filePath)
    THEN [acc EXCEPT !.files = Append(@, [path |-> filePath, content |-> content])]
    ELSE [acc EXCEPT !.warnings = Append(@, [w |-> "unexpected", path |-> filePath])]

\* (a search without the global flag's loop: only the first match is handled)
ParseFromFirstOnly(text, pos, expected, acc) ==
    LET o == IndexOfKind(text, "open", pos)
        c == IF o = 0 THEN 0 ELSE IndexOfKind(text, "close", o + 1)
    IN  IF o = 0 \/ c = 0 THEN acc
        ELSE ParseBlock(acc, TrimmedPath(text[o]), SubSeq(text, o + 1, c - 1), expected)

RECURSIVE ParseFrom(_, _, _, _)
\* the while loop over regex.exec from position pos: a match starts at the
\* first start tag that has an end tag after it and ends at the first such
\* end tag (the content is matched lazily); the next search starts behind it
ParseFrom(text, pos, expected, acc) ==
    LET o == IndexOfKind(text, "open", pos)
        c == IF o = 0 THEN 0 ELSE IndexOfKind(text, "close", o + 1)
    IN  IF o = 0 \/ c = 0 THEN acc
        ELSE ParseFrom(text, c + 1, expected,
                 ParseBlock(acc, TrimmedPath(text[o]), SubSeq(text, o + 1, c - 1), expected))

\* parseApiResponse(responseText, expectedPaths)
ParseApiResponse(text, expected) ==
    LET r == ParseFrom(text, 1, expected, [files |-> <<>>, warnings |-> <<>>])
    IN  IF Len(r.files) = 0
        THEN [r EXCEPT !.warnings = Append(@, [w |-> "no-markers", path |-> <<>>])]
        ELSE r

(***************************************************************************)
(* Engine invoker: invokeApiEngine and invokeClaudeCode.                   *)
(* An engine result is {success, output, error, files}; error "" is null,  *)
(* files <<>> is an absent or empty list; set is FALSE while sync's        *)
(* variable result is still undefined.                                     *)
(***************************************************************************)

Result(success, output, error, files) ==
    [set |-> TRUE, success |-> success, output |-> output, error |-> error,
     files |-> files]

Undefined ==
    [set |-> FALSE, success |-> FALSE, output |-> <<>>, error |-> "", files |-> <<>>]

\* narrativeCfg.apiKeyEnv || 'ANTHROPIC_API_KEY'
EnvVarName == "ANTHROPIC_API_KEY"

\* a line of the .env file: form is "kv" (KEY=VALUE), "comment", "blank" or
\* "noeq" (no '=' in it); value is the value with its quotes removed
EnvLine(form, key, value) == [form |-> form, key |-> key, value |-> value]

\* (a loop without the break: the last KEY=VALUE line whose key is name wins)
DotEnvValueLast(lines, name) ==
    IF \E i \in 1..Len(lines) : lines[i].form = "kv" /\ lines[i].key = name
    THEN lines[CHOOSE i \in 1..Len(lines) :
                 /\ lines[i].form = "kv" /\ lines[i].key = name
                 /\ \A j \in (i + 1)..Len(lines) :
                        ~(lines[j].form = "kv" /\ lines[j].key = name)].value
    ELSE ""

\* the loop over the lines of .env: the value of the first KEY=VALUE line
\* whose key is name, "" when there is none
DotEnvValue(lines, name) ==
    IF \E i \in 1..Len(lines) : lines[i].form = "kv" /\ lines[i].key = name
    THEN lines[CHOOSE i \in 1..Len(lines) :
                 /\ lines[i].form = "kv" /\ lines[i].key = name
                 /\ \A j \in 1..(i - 1) : ~(lines[j].form = "kv" /\ lines[j].key = name)].value
    ELSE ""

\* the API key: process.env[envVarName], else the .env file
ResolvedApiKey(envKey, dotEnv) ==
    IF envKey # "" THEN envKey
    ELSE IF dotEnv.exists THEN DotEnvValue(dotEnv.lines, EnvVarName)
    ELSE ""

\* (a test that the response is the sentinel and nothing else)
HasSentinelOnly(text) == text = <<Sentinel>>

\* responseText.includes('<no-changes-needed/>') || includes('<no-changes-needed />')
HasSentinel(text) == \E i \in 1..Len(text) : text[i].t = "sentinel"

\* (an allowlist that also admits a source file)
ApiTargetsWithSource(archFile, additionalTargets) ==
    <<archFile>> \o additionalTargets \o <<SourceFile>>

\* buildApiPrompt: targets = [archFile, ...additionalTargets]
ApiTargets(archFile, additionalTargets) == <<archFile>> \o additionalTargets

\* (a result that fails on any parser warning)
ParsedResultStrict(text, p) ==
    IF Len(p.warnings) > 0
    THEN Result(FALSE, text, "Response parsing failed", <<>>)
    ELSE Result(TRUE, text, "", p.files)

\* the result for what parseApiResponse returned: a failure when there are
\* warnings and no files, else success with the files
ParsedResult(text, p) ==
    IF Len(p.warnings) > 0 /\ Len(p.files) = 0
    THEN Result(FALSE, text, "Response parsing failed", <<>>)
    ELSE Result(TRUE, text, "", p.files)

\* (a handler that looks for the sentinel and the blocks before the stop reason)
ResponseResultUntruncated(stop, text, targets) ==
    IF HasSentinel(text)
    THEN Result(TRUE, text, "", <<>>)
    ELSE IF Len(ParseApiResponse(text, targets).files) > 0
    THEN Result(TRUE, text, "", ParseApiResponse(text, targets).files)
    ELSE IF stop # "end_turn"
    THEN Result(FALSE, text, "Response truncated. Try reducing file count or increasing maxTokens.", <<>>)
    ELSE Result(FALSE, text, "Response parsing failed", <<>>)

\* the result for a 2xx response with stop_reason stop and text text:
\* truncation, then the sentinel, then the parsed blocks
ResponseResult(stop, text, targets) ==
    IF stop # "end_turn"
    THEN Result(FALSE, text, "Response truncated. Try reducing file count or increasing maxTokens.", <<>>)
    ELSE IF HasSentinel(text)
    THEN Result(TRUE, text, "", <<>>)
    ELSE ParsedResult(text, ParseApiResponse(text, targets))

\* invokeApiEngine, from the API key lookup to the returned result.
\* fetch is what the request did: "abort" (the timer fired), "network" (fetch
\* threw), an HTTP status, or "200-badjson" (a 2xx whose body is not JSON);
\* stop and text are stop_reason and the text blocks of a 2xx response
InvokeApiEngine(envKey, dotEnv, fetch, stop, text, archFile, additionalTargets) ==
    IF ResolvedApiKey(envKey, dotEnv) = ""
    THEN Result(FALSE, <<>>, "API key not found. Set ANTHROPIC_API_KEY in your environment or .env file.", <<>>)
    ELSE CASE fetch = "abort"   -> Result(FALSE, <<>>, "API request timed out.", <<>>)
           [] fetch = "network" -> Result(FALSE, <<>>, "API request failed", <<>>)
           [] fetch = "401"     -> Result(FALSE, <<>>, "Invalid API key. Check ANTHROPIC_API_KEY.", <<>>)
           [] fetch = "429"     -> Result(FALSE, <<>>, "Rate limited by Anthropic API. Try again in 60 seconds.", <<>>)
           [] fetch = "500"     -> Result(FALSE, <<>>, "Anthropic API error", <<>>)
           [] fetch = "200-badjson" -> Result(FALSE, <<>>, "API request failed", <<>>)
           [] OTHER -> ResponseResult(stop, text, ApiTargets(archFile, additionalTargets))

\* (a catch that returns err.stderr as the error message)
InvokeClaudeCodeRawError(exec) ==
    CASE exec = "ok"      -> Result(TRUE, <<Text>>, "", <<>>)
      [] exec = "auth"    -> Result(FALSE, <<>>, "Error: not authenticated", <<>>)
      [] exec = "offline" -> Result(FALSE, <<>>, "getaddrinfo ENOTFOUND", <<>>)
      [] OTHER            -> Result(FALSE, <<>>, "", <<>>)

\* invokeClaudeCode, by what the subprocess call did: "ok", or the class of
\* its error ("auth", "offline", "unknown")
InvokeClaudeCode(exec) ==
    CASE exec = "ok"      -> Result(TRUE, <<Text>>, "", <<>>)
      [] exec = "auth"    -> Result(FALSE, <<>>, "Log in to Claude Code for automatic doc updates: claude login", <<>>)
      [] exec = "offline" -> Result(FALSE, <<>>, "Claude Code unavailable (offline). Falling back to prompt mode.", <<>>)
      [] OTHER            -> Result(FALSE, <<>>, "Claude Code failed. Falling back to prompt mode.", <<>>)

(***************************************************************************)
(* sanitizePrompt and the temporary prompt file of invokeClaudeCode.       *)
(* A prompt is a sequence of characters: "NUL" is the null byte, "CR" and  *)
(* "LF" are carriage return and line feed, "a" is any other character.     *)
(***************************************************************************)

\* prompt.replace(/\0/g, '')
RemoveNul(s) == SelectSeq(s, LAMBDA c : c # "NUL")

RECURSIVE ReplaceCrLf(_)
\* s.replace(/\r\n/g, '\n'): one pass from the left, each CR LF pair found
\* becomes LF and the search goes on behind the pair
ReplaceCrLf(s) ==
    IF s = <<>> THEN <<>>
    ELSE IF Len(s) >= 2 /\ s[1] = "CR" /\ s[2] = "LF"
         THEN <<"LF">> \o ReplaceCrLf(SubSeq(s, 3, Len(s)))
         ELSE <<Head(s)>> \o ReplaceCrLf(Tail(s))

\* (a sanitizer that also drops every carriage return)
SanitizePromptStripCr(p) ==
    SelectSeq(ReplaceCrLf(RemoveNul(p)), LAMBDA c : c # "CR")

\* sanitizePrompt(prompt)
SanitizePrompt(p) == ReplaceCrLf(RemoveNul(p))

NoFile == [exists |-> FALSE, content |-> <<>>]

\* (a call without the finally block)
FinallySkipped(file, unlinkThrows) == file

\* the finally block: the file is unlinked if it exists; an error of
\* unlinkSync is ignored and leaves the file
Finally(file, unlinkThrows) ==
    IF file.exists /\ ~unlinkThrows THEN NoFile ELSE file

(***************************************************************************)
(* classifyError.                                                          *)
(* An error text is a sequence of words; a marker is a sequence of words   *)
(* too ('not authenticated' is three: "not", " ", "authenticated").        *)
(***************************************************************************)

\* String.prototype.toLowerCase on one word
LowerWord(w) ==
    CASE w = "NOT"       -> "not"
      [] w = "Login"     -> "login"
      [] w = "ENOTFOUND" -> "enotfound"
      [] OTHER           -> w

\* String.prototype.toLowerCase
ToLowerCase(s) == [i \in DOMAIN s |-> LowerWord(s[i])]

\* String.prototype.includes
StrIncludes(s, m) ==
    \E k \in 0..(Len(s) - Len(m)) : SubSeq(s, k + 1, k + Len(m)) = m

\* (a classifier that tests the connectivity markers first)
ClassifyErrorOfflineFirst(stderr) ==
    IF stderr.null \/ stderr.text = <<>> THEN "unknown"
    ELSE LET lower == ToLowerCase(stderr.text)
         IN  IF \/ StrIncludes(lower, <<"enotfound">>)
                \/ StrIncludes(lower, <<"network">>)
                \/ StrIncludes(lower, <<"offline">>)
             THEN "offline"
             ELSE IF \/ StrIncludes(lower, <<"not", " ", "authenticated">>)
                     \/ StrIncludes(lower, <<"login">>)
                     \/ StrIncludes(lower, <<"unauthorized">>)
             THEN "auth"
             ELSE "unknown"

\* classifyError(stderr)
ClassifyError(stderr) ==
    IF stderr.null \/ stderr.text = <<>> THEN "unknown"
    ELSE LET lower == ToLowerCase(stderr.text)
         IN  IF \/ StrIncludes(lower, <<"not", " ", "authenticated">>)
                \/ StrIncludes(lower, <<"login">>)
                \/ StrIncludes(lower, <<"unauthorized">>)
             THEN "auth"
             ELSE IF \/ StrIncludes(lower, <<"enotfound">>)
                     \/ StrIncludes(lower, <<"network">>)
                     \/ StrIncludes(lower, <<"offline">>)
             THEN "offline"
             ELSE "unknown"

(***************************************************************************)
(* utils/config.js: DEFAULT_CONFIG, deepMerge, loadConfig.                 *)
(* A JSON value is a record: kind is its type, v the text of a string,     *)
(* number or boolean, items the elements of an array (each named by a      *)
(* string), fields the function from the keys of an object to its values.  *)
(***************************************************************************)

NoFields == [k \in {} |-> ""]

Null == [kind |-> "null", v |-> "", items |-> <<>>, fields |-> NoFields]

Str(s) == [kind |-> "string", v |-> s, items |-> <<>>, fields |-> NoFields]

Num(s) == [kind |-> "number", v |-> s, items |-> <<>>, fields |-> NoFields]

Bool(s) == [kind |-> "boolean", v |-> s, items |-> <<>>, fields |-> NoFields]

Arr(items) == [kind |-> "array", v |-> "", items |-> items, fields |-> NoFields]

Obj(fields) == [kind |-> "object", v |-> "", items |-> <<>>, fields |-> fields]

\* DEFAULT_CONFIG
DEFAULT_CONFIG ==
    Obj(("$schema" :> Str("./agent-docs.schema.json")) @@
        [projectName |-> Str("My Project"),
         techStack |-> Obj([framework |-> Str("Next.js 14 (App Router)"),
                            language |-> Str("TypeScript")]),
         docsDir |-> Str("docs/"),
         generatedDir |-> Str("docs/_generated/"),
         architectureFile |-> Str("docs/ARCHITECTURE.md"),
         agentConfigFile |-> Str(".cursorrules"),
         additionalAgentConfigs |-> Arr(<<>>),
         autoFix |-> Obj([generators |-> Bool("true"),
                          narrative |-> Obj([enabled |-> Bool("true"),
                                             engine |-> Str("claude-code"),
                                             review |-> Bool("false"),
                                             narrativeTriggers |-> Arr(<<"api-routes", "prisma", "env">>),
                                             additionalNarrativeTargets |-> Arr(<<"README.md">>),
                                             model |-> Str("claude-sonnet-4-20250514"),
                                             apiKeyEnv |-> Str("ANTHROPIC_API_KEY"),
                                             maxTokens |-> Num("32000"),
                                             timeout |-> Num("120000")])]),
         scanPaths |-> Obj([apiRoutes |-> Str("src/app/api/"),
                            pageRoutes |-> Str("src/app/"),
                            prismaSchema |-> Null,
                            envFile |-> Str(".env.example"),
                            sourceDir |-> Str("src/")]),
         categories |-> Arr(<<"env", "api-routes", "page-routes">>),
         baselines |-> Obj([largeFileThreshold |-> Num("500"),
                            largeFileCount |-> Null,
                            todoCount |-> Null,
                            highVulnCount |-> Null,
                            deadExportCount |-> Null]),
         workflows |-> Obj([docsAudit |-> Obj([enabled |-> Bool("true"),
                                               triggerPaths |-> Arr(<<"src/app/api/**",
                                                                      "src/app/*/page.tsx",
                                                                      ".env.example">>)]),
                            refactorAudit |-> Obj([enabled |-> Bool("true"),
                                                   schedule |-> Str("0 8 * * 0"),
                                                   labels |-> Arr(<<"refactoring", "automated-audit">>)])]),
         integrations |-> Obj([github |-> Obj([issueLabels |->
                                  Obj([docsAudit |-> Arr(<<"documentation", "automated-audit">>),
                                       refactorAudit |-> Arr(<<"refactoring", "automated-audit">>)])])]),
         envCategories |-> Arr(<<"NEXTAUTH_", "DATABASE_", "NEXT_PUBLIC_">>)])

\* x is truthy: not null, false, 0 or ''
Truthy(x) ==
    ~ \/ x.kind = "null"
      \/ x.kind = "boolean" /\ x.v = "false"
      \/ x.kind = "number" /\ x.v = "0"
      \/ x.kind = "string" /\ x.v = ""

\* x && typeof x === 'object' && !Array.isArray(x)
IsPlainObject(x) == Truthy(x) /\ x.kind \in {"object", "array"} /\ x.kind # "array"

\* (a merge that assigns every key of the source)
DeepMergeShallow(target, source) ==
    [k \in (DOMAIN target \cup DOMAIN source) |->
        IF k \in DOMAIN source THEN source[k] ELSE target[k]]

RECURSIVE DeepMerge(_, _)
\* deepMerge(target, source), on the fields of the two objects
DeepMerge(target, source) ==
    [k \in (DOMAIN target \cup DOMAIN source) |->
        IF k \notin DOMAIN source THEN target[k]
        ELSE IF /\ IsPlainObject(source[k])
                /\ k \in DOMAIN target
                /\ IsPlainObject(target[k])
        THEN Obj(DeepMerge(target[k].fields, source[k].fields))
        ELSE source[k]]

\* loadConfig(configPath) on a file that parses to raw
LoadConfig(raw) ==
    Obj([k \in {"_projectRoot", "_configPath"} |->
            IF k = "_projectRoot" THEN Str("dirname(absolutePath)")
            ELSE Str("absolutePath")]
        @@ DeepMerge(DEFAULT_CONFIG.fields, raw.fields))

(***************************************************************************)
(* init: the standing instructions and the agent config file.              *)
(* A file content is a sequence of pieces: "MARKER" is the heading line    *)
(* '## Documentation Maintenance — Standing Instructions', "rules-a" and   *)
(* "rules-b" are the text generated below it for two configurations,       *)
(* "NL" is a newline and "user" is any other text.                         *)
(***************************************************************************)

\* generateStandingInstructions(config): the heading, then the text that
\* depends on the config
GenerateStandingInstructions(rules) == <<"MARKER", rules>>

\* existingContent.indexOf(MARKER_START), counted from 1; 0 when absent
MarkerIndex(content) ==
    IF \E i \in DOMAIN content : content[i] = "MARKER"
    THEN CHOOSE i \in DOMAIN content :
            content[i] = "MARKER" /\ \A j \in 1..(i - 1) : content[j] # "MARKER"
    ELSE 0

RECURSIVE TrimEnd(_)
\* String.prototype.trimEnd
TrimEnd(content) ==
    IF content # <<>> /\ content[Len(content)] = "NL"
    THEN TrimEnd(SubSeq(content, 1, Len(content) - 1))
    ELSE content

\* init, 3h: the entry pushed to filesToCreate for the agent config file
StandingEntry(file, rules) ==
    LET standingInstructions == GenerateStandingInstructions(rules)
        markerIndex == MarkerIndex(file.content)
    IN  IF file.exists
        THEN IF markerIndex # 0
             THEN [content |-> TrimEnd(SubSeq(file.content, 1, markerIndex - 1))
                               \o <<"NL", "NL">> \o standingInstructions \o <<"NL">>,
                   append |-> <<>>,
                   label |-> "replaced standing instructions"]
             ELSE [content |-> <<>>,
                   append |-> <<"NL", "NL">> \o standingInstructions,
                   label |-> "appended standing instructions"]
        ELSE [content |-> standingInstructions \o <<"NL">>,
              append |-> <<>>,
              label |-> "agentConfigFile"]

\* init, 4: the write loop on one entry with content or append
WriteEntry(file, f) ==
    IF f.append # <<>>
    THEN [exists |-> TRUE, content |-> (IF file.exists THEN file.content ELSE <<>>) \o f.append]
    ELSE IF file.exists /\ f.label # "agent-docs.config.json"
    THEN file
    ELSE [exists |-> TRUE, content |-> f.content]

(***************************************************************************)
(* buildApiPrompt: the files embedded in the user message.                 *)
(* A file is [kind, n]: kind says what the disk holds at its path          *)
(* ("missing": nothing; "small", "limit", "big": a file of 1 KB, of        *)
(* exactly 50 KB, of one byte more; "doc", "inventory": a documentation    *)
(* target, a generated inventory), n tells the files of a kind apart.      *)
(* A content is [of, bytes]: the file it was read from and how many of     *)
(* its bytes it holds.                                                     *)
(***************************************************************************)

\* const maxFiles = 15
maxFiles == 15

\* const maxFileSizeBytes = 50 * 1024
maxFileSizeBytes == 50 * 1024

File(kind, n) == [kind |-> kind, n |-> n]

\* fs.existsSync(fullPath)
ExistsSync(f) == f.kind # "missing"

\* fs.statSync(fullPath).size
StatSize(f) ==
    CASE f.kind = "limit" -> maxFileSizeBytes
      [] f.kind = "big"   -> maxFileSizeBytes + 1
      [] OTHER            -> 1024

\* fs.readFileSync(fullPath, 'utf8')
ReadFileSync(f) == [of |-> f, bytes |-> StatSize(f)]

\* (an inner loop body that counts the files it skips)
EmbedFileCountingSkipped(acc, f) ==
    IF acc.stop \/ acc.fileCount >= maxFiles THEN [acc EXCEPT !.stop = TRUE]
    ELSE IF ExistsSync(f) /\ StatSize(f) <= maxFileSizeBytes
    THEN [acc EXCEPT !.sourceContents = Append(@, [path |-> f, content |-> ReadFileSync(f)]),
                     !.fileCount = @ + 1]
    ELSE [acc EXCEPT !.fileCount = @ + 1]

\* the body of the inner loop for one changed file; stop says that the loop
\* over this category's files has hit its break
EmbedFile(acc, f) ==
    IF acc.stop \/ acc.fileCount >= maxFiles THEN [acc EXCEPT !.stop = TRUE]
    ELSE IF ExistsSync(f) /\ StatSize(f) <= maxFileSizeBytes
    THEN [acc EXCEPT !.sourceContents = Append(@, [path |-> f, content |-> ReadFileSync(f)]),
                     !.fileCount = @ + 1]
    ELSE acc

RECURSIVE EmbedFiles(_, _)
\* the inner loop: for (const f of files)
EmbedFiles(acc, files) ==
    IF files = <<>> THEN acc
    ELSE EmbedFiles(EmbedFile(acc, Head(files)), Tail(files))

RECURSIVE EmbedCategories(_, _)
\* the outer loop: for (const [catId, files] of Object.entries(matches))
EmbedCategories(acc, ms) ==
    IF ms = <<>> THEN acc
    ELSE EmbedCategories(EmbedFiles([acc EXCEPT !.stop = FALSE], Head(ms).files), Tail(ms))

\* the changed source files read for the prompt
SourceContents(mode, ms) ==
    IF mode = "narrative" /\ ms.defined
    THEN EmbedCategories([sourceContents |-> <<>>, fileCount |-> 0, stop |-> FALSE],
                         ms.list).sourceContents
    ELSE <<>>

\* one piece of the user message: a heading or a line of text (file and
\* content unused), or an embedded <file path=...> block
Piece(t, name, f, content) == [t |-> t, name |-> name, file |-> f, content |-> content]

NoPath == File("none", 0)

TextPiece(t, name) == Piece(t, name, NoPath, ReadFileSync(NoPath))

FilePiece(sec, f) == Piece("file", sec, f, ReadFileSync(f))

RECURSIVE SummaryLines(_)
\* the 'Changed File Summary' of the user message
SummaryLines(ms) ==
    IF ms = <<>> THEN <<>>
    ELSE <<TextPiece("subheading", Head(ms).id)>>
         \o [i \in 1..Len(Head(ms).files) |->
                Piece("bullet", "summary", Head(ms).files[i], ReadFileSync(NoPath))]
         \o SummaryLines(Tail(ms))

\* buildApiPrompt({mode, config, projectRoot, matches}): sourceContents and
\* the user message; disk tells which of the two targets exist and how many
\* inventories there are
BuildApiPrompt(mode, ms, disk) ==
    LET sourceContents == SourceContents(mode, ms)
        targetContents == SelectSeq(<<File("doc", 1), File("doc", 2)>>,
                                    LAMBDA t : t.n \in disk.targets)
        inventoryContents == [i \in 1..disk.inventories |-> File("inventory", i)]
    IN  [sourceContents |-> sourceContents,
         user |->
            <<TextPiece("text", IF mode = "sync" THEN "Perform a FULL documentation audit"
                                ELSE "The following code files were changed")>>
            \o <<TextPiece("heading", "Current Documentation")>>
            \o [i \in 1..Len(targetContents) |-> FilePiece("docs", targetContents[i])]
            \o <<TextPiece("heading", "Generated Inventories")>>
            \o [i \in 1..Len(inventoryContents) |-> FilePiece("inventories", inventoryContents[i])]
            \o (IF mode = "narrative" /\ Len(sourceContents) > 0
                THEN <<TextPiece("heading", "Changed Source Files")>>
                     \o [i \in 1..Len(sourceContents) |->
                            Piece("file", "source", sourceContents[i].path,
                                  sourceContents[i].content)]
                ELSE <<>>)
            \o (IF mode = "sync"
                THEN <<TextPiece("heading", "Categories Monitored")>> ELSE <<>>)
            \o (IF mode = "narrative" /\ ms.defined
                THEN <<TextPiece("heading", "Changed File Summary")>>
                     \o SummaryLines(ms.list)
                ELSE <<>>)
            \o <<TextPiece("heading", "Instructions")>>]

(***************************************************************************)
(* Audit log: logEntry and readLog of _audit-log.cjs.                      *)
(* The log file is missing, corrupt (not JSON) or a JSON array of entries. *)
(***************************************************************************)

MAX_ENTRIES == 500

LogFile(state, entries) == [state |-> state, entries |-> entries]

\* (a reader that fails on a file that is not JSON)
ReadLogStrict(file) ==
    [error |-> file.state = "corrupt",
     entries |-> IF file.state = "json" THEN file.entries ELSE <<>>]

\* readLog(logFile): a missing or corrupt file reads as the empty log
ReadLog(file) ==
    [error |-> FALSE,
     entries |-> IF file.state = "json" THEN file.entries ELSE <<>>]

\* (a trim that keeps the oldest entries)
TrimLogOldest(log) ==
    IF Len(log) > MAX_ENTRIES THEN SubSeq(log, 1, MAX_ENTRIES) ELSE log

\* truncate to the most recent MAX_ENTRIES entries
TrimLog(log) ==
    IF Len(log) > MAX_ENTRIES
    THEN SubSeq(log, Len(log) - MAX_ENTRIES + 1, Len(log))
    ELSE log

\* the file logEntry writes back: read, append, trim
LogEntryFile(file, entry) ==
    IF ReadLog(file).error THEN file
    ELSE LogFile("json", TrimLog(Append(ReadLog(file).entries, entry)))

(***************************************************************************)
(* Inputs: category descriptors and paths.                                 *)
(***************************************************************************)

Cat(id, name, type, pattern, target, gen) ==
    [id |-> id, name |-> name, patternType |-> type, filePattern |-> pattern,
     docTarget |-> target, genCommand |-> gen]

CatEnv == Cat("env", "Environment Variables", "exact", <<".env.example">>,
              "Environment Variables section", "npm run gen:env")

CatApi == Cat("api-routes", "API Routes", "regex",
              <<"^", "src/", "api/", ".+", ".ts", "$">>,
              "API Routes section", "npm run gen:api-routes")

CatSrc == Cat("source", "Source Files", "startsWith", <<"src/">>,
              "Source section", "")

\* a regex category whose pattern does not compile
CatBad == Cat("broken", "Broken Pattern", "regex", <<"(", "lib/">>,
              "Broken section", "npm run gen:env")

\* a category whose patternType is none of the three kinds
CatOther == Cat("misc", "Misc", "glob", <<"lib/", "util.ts">>, "Misc section", "")

CheckPool == {CatEnv, CatApi, CatSrc, CatBad}

CatPool == CheckPool \cup {CatOther}

\* the category lists over a pool: every ordered choice of distinct
\* descriptors (ids are unique within a configuration)
Arrangements(S) ==
    {s \in UNION {[1..n -> S] : n \in 0..Cardinality(S)} :
        \A i, j \in DOMAIN s : i # j => s[i] # s[j]}

\* paths given to categorize directly
FilePool == {<<".env.example">>, <<"src/", "api/", "x", ".ts">>,
             <<"src/", "util.ts">>, <<"lib/", "util.ts">>}

\* longest path list given to categorize directly
MaxFiles == 3

FileLists == UNION {[1..n -> FilePool] : n \in 0..MaxFiles}

\* largest number of files staged under src/api/
MaxBulk == 16

RECURSIVE Xs(_)
Xs(n) == IF n = 0 THEN <<>> ELSE <<"x">> \o Xs(n - 1)

\* the i-th file under src/api/: src/api/x.ts, src/api/xx.ts, ...
Bulk(i) == <<"src/", "api/">> \o Xs(i) \o <<".ts">>

\* the other paths that may be staged, in the order git lists them
ExtraList == <<AgentConfigFile, <<".env.example">>, <<"docs/", "ARCHITECTURE.md">>,
               <<"lib/", "util.ts">>>>

\* what `git diff --cached --name-only` can print: distinct paths, sorted
StagedLists ==
    {SelectSeq(ExtraList, LAMBDA p : p \in ex) \o [i \in 1..n |-> Bulk(i)] :
        ex \in SUBSET {ExtraList[k] : k \in DOMAIN ExtraList}, n \in 0..MaxBulk}

\* the tokens of the response texts given to the parser
ParseTokens ==
    {Tok("open", ArchFile, FALSE), Tok("open", ReadmeFile, FALSE),
     Tok("open", ReadmeFile, TRUE), Tok("open", SourceFile, FALSE),
     Close, Text, Sentinel}

\* longest response text given to the parser
MaxTextLen == 4

\* the texts over a set of tokens, up to a length
Texts(tokens, n) == UNION {[1..k -> tokens] : k \in 0..n}

\* the allowlists given to the parser
ParseAllowlists == {<<>>, <<ArchFile>>, <<ArchFile, ReadmeFile>>}

\* the tokens of the response texts the API returns to sync
SyncTokens ==
    {Tok("open", ArchFile, FALSE), Tok("open", ReadmeFile, FALSE),
     Tok("open", SourceFile, FALSE), Close, Text, Sentinel}

\* longest response text the API returns to sync
MaxRespLen == 4

\* the .env files of the project root
DotEnvFiles ==
    {[exists |-> FALSE, lines |-> <<>>],
     [exists |-> TRUE, lines |-> <<EnvLine("comment", "", ""), EnvLine("kv", "OTHER", "v")>>],
     [exists |-> TRUE, lines |-> <<EnvLine("kv", EnvVarName, "")>>],
     [exists |-> TRUE, lines |-> <<EnvLine("blank", "", ""), EnvLine("kv", EnvVarName, "sk-file"),
                                   EnvLine("kv", EnvVarName, "sk-second")>>]}

\* what the request of invokeApiEngine can do
FetchOutcomes == {"abort", "network", "401", "429", "500", "200-badjson", "200"}

\* what the subprocess call of invokeClaudeCode can do
ExecOutcomes == {"ok", "auth", "offline", "unknown"}

\* the modes of an audit entry
Modes == {"auto-fix", "prompt", "sync", "skip"}

\* a log file left by k earlier logEntry calls
Prefilled(k) == LogFile("json", [i \in 1..k |-> [timestamp |-> i, mode |-> "skip"]])

\* the log files a run can find on disk
LogFiles ==
    {LogFile("missing", <<>>), LogFile("corrupt", <<>>)}
    \cup {Prefilled(k) : k \in {0, 1, MAX_ENTRIES - 2, MAX_ENTRIES - 1, MAX_ENTRIES}}

\* largest number of logEntry calls in one behaviour
MaxLogCalls == 3

(***************************************************************************)
(* The parts that a specification does not exercise stay idle.             *)
(***************************************************************************)

CheckIdle ==
    /\ pc = "idle" /\ configFile = "valid" /\ verbose = FALSE
    /\ categories = <<>> /\ staged = <<>> /\ matches = <<>> /\ unmatched = <<>>
    /\ outcome = "none" /\ prompt = <<>> /\ exitCode = -1

ParseIdle ==
    /\ ppc = "idle" /\ responseText = <<>> /\ expectedPaths = <<>>
    /\ parsed = [files |-> <<>>, warnings |-> <<>>]

SyncIdle ==
    /\ spc = "idle" /\ syncEngine = "unset" /\ syncTargets = <<>>
    /\ genTotal = 0 /\ genRun = 0 /\ result = Undefined /\ toWrite = <<>>
    /\ written = <<>> /\ gitStaged = FALSE /\ manualPrompts = 0 /\ auditEntries = <<>>

NoCall == [state |-> "none", entry |-> [timestamp |-> 0, mode |-> "skip"]]

NotRead == [called |-> FALSE, from |-> "none", entries |-> <<>>]

LogIdle ==
    /\ logFile = LogFile("missing", <<>>) /\ logHistory = <<>> /\ logCalls = 0
    /\ logError = FALSE /\ logBefore = NoCall /\ readResult = NotRead

ApiIdle ==
    /\ apc = "idle" /\ apiEnvKey = "" /\ apiDotEnv = [exists |-> FALSE, lines |-> <<>>]
    /\ apiTargets = <<>> /\ apiKey = "" /\ promptBuilt = FALSE /\ requestIssued = FALSE
    /\ apiFetch = "none" /\ apiStop = "none" /\ apiText = <<>> /\ apiResult = Undefined
    /\ timerArmed = FALSE

ClaudeIdle ==
    /\ cpc = "idle" /\ cPrompt = <<>> /\ sanitized = <<>> /\ tempFile = NoFile
    /\ piped = <<>> /\ unlinkFailed = FALSE /\ cResult = Undefined

NullText == [null |-> TRUE, text |-> <<>>]

ClassifyIdle == kpc = "idle" /\ errText = NullText /\ errType = "none"

ConfigIdle ==
    /\ lpc = "idle"
    /\ rawFile = [state |-> "missing", raw |-> Obj(NoFields)]
    /\ loadedConfig = Null

NoRun == [dry |-> TRUE, found |-> NoFile, standing |-> <<>>]

InitCmdIdle == agentFile = NoFile /\ initRuns = 0 /\ lastRun = NoRun

NoMatches == [defined |-> FALSE, list |-> <<>>]

NoPrompt == [sourceContents |-> <<>>, user |-> <<>>]

PromptIdle ==
    /\ bpc = "idle" /\ promptMode = "sync" /\ promptMatches = NoMatches
    /\ promptDisk = [targets |-> {}, inventories |-> 0] /\ apiPrompt = NoPrompt

PureIdle == ClassifyIdle /\ ConfigIdle /\ InitCmdIdle /\ PromptIdle

(***************************************************************************)
(* SpecCat: categorize on every path list and every category list.         *)
(***************************************************************************)

InitCat ==
    /\ pc = "cat-call"
    /\ configFile = "valid" /\ verbose = FALSE
    /\ categories \in Arrangements(CatPool)
    /\ staged \in FileLists
    /\ matches = <<>> /\ unmatched = <<>>
    /\ outcome = "none" /\ prompt = <<>> /\ exitCode = -1
    /\ ParseIdle /\ SyncIdle /\ LogIdle /\ ApiIdle /\ ClaudeIdle /\ PureIdle

\* categorize(staged) returns
CategorizeReturn ==
    /\ pc = "cat-call"
    /\ ~Categorize(categories, staged).threw
    /\ matches' = Categorize(categories, staged).matches
    /\ unmatched' = Categorize(categories, staged).unmatched
    /\ pc' = "cat-returned"
    /\ UNCHANGED <<parseVars, syncVars, logVars, apiVars, claudeVars, pureVars>>
    /\ UNCHANGED <<configFile, verbose, categories, staged, outcome, prompt, exitCode>>

\* categorize(staged) throws the SyntaxError of new RegExp
CategorizeThrow ==
    /\ pc = "cat-call"
    /\ Categorize(categories, staged).threw
    /\ pc' = "cat-threw"
    /\ UNCHANGED <<parseVars, syncVars, logVars, apiVars, claudeVars, pureVars>>
    /\ UNCHANGED <<configFile, verbose, categories, staged, matches, unmatched,
                   outcome, prompt, exitCode>>

NextCat == CategorizeReturn \/ CategorizeThrow

SpecCat == InitCat /\ [][NextCat]_vars

(***************************************************************************)
(* SpecCheck: one run of the pre-commit check script.                      *)
(***************************************************************************)

InitCheck ==
    /\ pc = "load"
    /\ configFile \in {"missing", "invalid", "valid"}
    /\ verbose \in BOOLEAN
    /\ categories = <<>> /\ staged = <<>> /\ matches = <<>> /\ unmatched = <<>>
    /\ outcome = "none" /\ prompt = <<>> /\ exitCode = -1
    /\ ParseIdle /\ SyncIdle /\ LogIdle /\ ApiIdle /\ ClaudeIdle /\ PureIdle

\* loadConfig(): no config file, or one that is not JSON: process.exit(1)
LoadConfigExit ==
    /\ pc = "load"
    /\ configFile \in {"missing", "invalid"}
    /\ exitCode' = 1
    /\ pc' = "exited"
    /\ UNCHANGED <<parseVars, syncVars, logVars, apiVars, claudeVars, pureVars>>
    /\ UNCHANGED <<configFile, verbose, categories, staged, matches, unmatched,
                   outcome, prompt>>

\* loadConfig() returns the parsed file; CATEGORIES is built from it
LoadConfigOk ==
    /\ pc = "load"
    /\ configFile = "valid"
    /\ \E cats \in Arrangements(CheckPool) : categories' = cats
    /\ pc' = "main"
    /\ UNCHANGED <<parseVars, syncVars, logVars, apiVars, claudeVars, pureVars>>
    /\ UNCHANGED <<configFile, verbose, staged, matches, unmatched, outcome, prompt,
                   exitCode>>

\* main(): getStagedFiles() and the early return on an empty list
GetStagedFiles ==
    /\ pc = "main"
    /\ \E files \in StagedLists :
        /\ staged' = files
        /\ IF files = <<>>
           THEN outcome' = "nothing-staged" /\ pc' = "end"
           ELSE outcome' = outcome /\ pc' = "classify"
    /\ UNCHANGED <<parseVars, syncVars, logVars, apiVars, claudeVars, pureVars>>
    /\ UNCHANGED <<configFile, verbose, categories, matches, unmatched, prompt, exitCode>>

\* main(): categorize, the three-way branch and the printing; an exception
\* leaves main and is caught by the try/catch around it
Classify ==
    /\ pc = "classify"
    /\ LET r == Categorize(categories, staged)
       IN  IF r.threw
           THEN /\ outcome' = "error"
                /\ UNCHANGED <<matches, unmatched, prompt>>
           ELSE /\ matches' = r.matches
                /\ unmatched' = r.unmatched
                /\ IF ~hasDocRelevant(r.matches)
                   THEN outcome' = "silent-pass" /\ prompt' = prompt
                   ELSE IF docFilesStaged(staged)
                   THEN outcome' = "positive-note" /\ prompt' = prompt
                   ELSE /\ outcome' = "needs-remediation"
                        /\ prompt' = BuildPrompt(categories, r.matches)
    /\ pc' = "end"
    /\ UNCHANGED <<parseVars, syncVars, logVars, apiVars, claudeVars, pureVars>>
    /\ UNCHANGED <<configFile, verbose, categories, staged, exitCode>>

\* process.exit(0) after the try/catch
Exit ==
    /\ pc = "end"
    /\ exitCode' = 0
    /\ pc' = "exited"
    /\ UNCHANGED <<parseVars, syncVars, logVars, apiVars, claudeVars, pureVars>>
    /\ UNCHANGED <<configFile, verbose, categories, staged, matches, unmatched,
                   outcome, prompt>>

NextCheck == LoadConfigExit \/ LoadConfigOk \/ GetStagedFiles \/ Classify \/ Exit

SpecCheck == InitCheck /\ [][NextCheck]_vars

(***************************************************************************)
(* SpecParse: parseApiResponse on every response text and every allowlist. *)
(***************************************************************************)

InitParse ==
    /\ ppc = "call"
    /\ responseText \in Texts(ParseTokens, MaxTextLen)
    /\ expectedPaths \in ParseAllowlists
    /\ parsed = [files |-> <<>>, warnings |-> <<>>]
    /\ CheckIdle /\ SyncIdle /\ LogIdle /\ ApiIdle /\ ClaudeIdle /\ PureIdle

\* parseApiResponse(responseText, expectedPaths) returns
ParseReturn ==
    /\ ppc = "call"
    /\ parsed' = ParseApiResponse(responseText, expectedPaths)
    /\ ppc' = "returned"
    /\ UNCHANGED <<responseText, expectedPaths>>
    /\ UNCHANGED <<checkVars, syncVars, logVars, apiVars, claudeVars, pureVars>>

NextParse == ParseReturn

SpecParse == InitParse /\ [][NextParse]_vars

(***************************************************************************)
(* SpecSync: one run of sync({configPath, flags}).                         *)
(***************************************************************************)

InitSync ==
    /\ spc = "start" /\ syncEngine = "unset" /\ syncTargets = <<>>
    /\ genTotal = 0 /\ genRun = 0 /\ result = Undefined /\ toWrite = <<>>
    /\ written = <<>> /\ gitStaged = FALSE /\ manualPrompts = 0 /\ auditEntries = <<>>
    /\ CheckIdle /\ ParseIdle /\ LogIdle /\ ApiIdle /\ ClaudeIdle /\ PureIdle

\* loadConfig(configPath) throws: no config file, or invalid JSON
SyncLoadConfigThrow ==
    /\ spc = "start"
    /\ spc' = "threw"
    /\ UNCHANGED <<syncEngine, syncTargets, genTotal, genRun, result, toWrite, written,
                   gitStaged, manualPrompts, auditEntries>>
    /\ UNCHANGED <<checkVars, parseVars, logVars, apiVars, claudeVars, pureVars>>

\* loadConfig(configPath) returns the merged config; gen() starts with two
\* scripts, three when scanPaths.prismaSchema is set
SyncLoadConfig ==
    /\ spc = "start"
    /\ \E engine \in {"api", "claude-code"}, additional \in {<<>>, <<ReadmeFile>>},
          prisma \in BOOLEAN :
        /\ syncEngine' = engine
        /\ syncTargets' = <<ArchFile>> \o additional
        /\ genTotal' = IF prisma THEN 3 ELSE 2
    /\ spc' = "gen"
    /\ UNCHANGED <<genRun, result, toWrite, written, gitStaged, manualPrompts,
                   auditEntries>>
    /\ UNCHANGED <<checkVars, parseVars, logVars, apiVars, claudeVars, pureVars>>

\* gen(): one generator script is run; its failure is caught and reported
SyncGenScript ==
    /\ spc = "gen"
    /\ genRun < genTotal
    /\ genRun' = genRun + 1
    /\ UNCHANGED <<spc, syncEngine, syncTargets, genTotal, result, toWrite, written,
                   gitStaged, manualPrompts, auditEntries>>
    /\ UNCHANGED <<checkVars, parseVars, logVars, apiVars, claudeVars, pureVars>>

\* (the engine is loaded while generator scripts are still to run)
SyncLoadEngineEarly ==
    /\ spc = "gen"
    /\ \E loaded \in BOOLEAN :
        spc' = IF ~loaded THEN "returned"
               ELSE IF syncEngine = "api" THEN "api-invoke" ELSE "detect"
    /\ UNCHANGED <<syncEngine, syncTargets, genTotal, genRun, result, toWrite, written,
                   gitStaged, manualPrompts, auditEntries>>
    /\ UNCHANGED <<checkVars, parseVars, logVars, apiVars, claudeVars, pureVars>>

\* gen() returns; require('_claude-engine.cjs') succeeds, or fails in both
\* places and sync returns
SyncLoadEngine ==
    /\ spc = "gen"
    /\ genRun = genTotal
    /\ \E loaded \in BOOLEAN :
        spc' = IF ~loaded THEN "returned"
               ELSE IF syncEngine = "api" THEN "api-invoke" ELSE "detect"
    /\ UNCHANGED <<syncEngine, syncTargets, genTotal, genRun, result, toWrite, written,
                   gitStaged, manualPrompts, auditEntries>>
    /\ UNCHANGED <<checkVars, parseVars, logVars, apiVars, claudeVars, pureVars>>

\* the api branch: invokeApiEngine returns a result; sync goes on to write
\* its files, or reports no changes, or prints the manual prompt
SyncApiInvoke ==
    /\ spc = "api-invoke"
    /\ \E envKey \in {"", "sk-env"}, dotEnv \in DotEnvFiles, fetch \in FetchOutcomes,
          stop \in {"end_turn", "max_tokens"}, text \in Texts(SyncTokens, MaxRespLen) :
        LET r == InvokeApiEngine(envKey, dotEnv, fetch, stop, text,
                                 Head(syncTargets), Tail(syncTargets))
        IN  /\ result' = r
            /\ IF r.success /\ Len(r.files) > 0
               THEN toWrite' = r.files /\ spc' = "write" /\ manualPrompts' = manualPrompts
               ELSE IF r.success
               THEN toWrite' = toWrite /\ spc' = "log" /\ manualPrompts' = manualPrompts
               ELSE toWrite' = toWrite /\ spc' = "log" /\ manualPrompts' = manualPrompts + 1
    /\ UNCHANGED <<syncEngine, syncTargets, genTotal, genRun, written, gitStaged,
                   auditEntries>>
    /\ UNCHANGED <<checkVars, parseVars, logVars, apiVars, claudeVars, pureVars>>

\* the api branch: invokeApiEngine rejects (reading .env or a documentation
\* file throws); the catch sets result
SyncApiThrow ==
    /\ spc = "api-invoke"
    /\ result' = [set |-> TRUE, success |-> FALSE, output |-> <<>>,
                  error |-> "err.message", files |-> <<>>]
    /\ spc' = "log"
    /\ UNCHANGED <<syncEngine, syncTargets, genTotal, genRun, toWrite, written,
                   gitStaged, manualPrompts, auditEntries>>
    /\ UNCHANGED <<checkVars, parseVars, logVars, apiVars, claudeVars, pureVars>>

\* the api branch: writeFileSync of the next file of result.files
SyncWriteFile ==
    /\ spc = "write"
    /\ toWrite # <<>>
    /\ written' = Append(written, Head(toWrite).path)
    /\ toWrite' = Tail(toWrite)
    /\ UNCHANGED <<spc, syncEngine, syncTargets, genTotal, genRun, result, gitStaged,
                   manualPrompts, auditEntries>>
    /\ UNCHANGED <<checkVars, parseVars, logVars, apiVars, claudeVars, pureVars>>

\* the api branch: writeFileSync throws; the catch sets result
SyncWriteThrow ==
    /\ spc = "write"
    /\ toWrite # <<>>
    /\ result' = [set |-> TRUE, success |-> FALSE, output |-> <<>>,
                  error |-> "err.message", files |-> <<>>]
    /\ toWrite' = <<>>
    /\ spc' = "log"
    /\ UNCHANGED <<syncEngine, syncTargets, genTotal, genRun, written, gitStaged,
                   manualPrompts, auditEntries>>
    /\ UNCHANGED <<checkVars, parseVars, logVars, apiVars, claudeVars, pureVars>>

\* the api branch: git add of the generated directory and the targets
SyncStage ==
    /\ spc = "write"
    /\ toWrite = <<>>
    /\ \E ok \in BOOLEAN : gitStaged' = ok
    /\ spc' = "log"
    /\ UNCHANGED <<syncEngine, syncTargets, genTotal, genRun, result, toWrite, written,
                   manualPrompts, auditEntries>>
    /\ UNCHANGED <<checkVars, parseVars, logVars, apiVars, claudeVars, pureVars>>

\* the subprocess branch: detectEngine() finds no claude on PATH; sync prints
\* the manual prompt and returns
SyncDetectNone ==
    /\ spc = "detect"
    /\ manualPrompts' = manualPrompts + 1
    /\ spc' = "returned"
    /\ UNCHANGED <<syncEngine, syncTargets, genTotal, genRun, result, toWrite, written,
                   gitStaged, auditEntries>>
    /\ UNCHANGED <<checkVars, parseVars, logVars, apiVars, claudeVars, pureVars>>

\* the subprocess branch: detectEngine() finds claude; invokeClaudeCode
\* returns; on failure sync prints the manual prompt
SyncClaudeInvoke ==
    /\ spc = "detect"
    /\ \E exec \in ExecOutcomes :
        /\ result' = InvokeClaudeCode(exec)
        /\ manualPrompts' = IF InvokeClaudeCode(exec).success THEN manualPrompts
                            ELSE manualPrompts + 1
    /\ spc' = "log"
    /\ UNCHANGED <<syncEngine, syncTargets, genTotal, genRun, toWrite, written,
                   gitStaged, auditEntries>>
    /\ UNCHANGED <<checkVars, parseVars, logVars, apiVars, claudeVars, pureVars>>

\* Step 4: auditLog.logEntry is called (its failure is caught); sync returns
SyncLog ==
    /\ spc = "log"
    /\ auditEntries' = Append(auditEntries,
            [mode |-> "sync", engine |-> syncEngine,
             narrativeResults |-> IF result.set /\ result.success THEN 1 ELSE 0])
    /\ spc' = "returned"
    /\ UNCHANGED <<syncEngine, syncTargets, genTotal, genRun, result, toWrite, written,
                   gitStaged, manualPrompts>>
    /\ UNCHANGED <<checkVars, parseVars, logVars, apiVars, claudeVars, pureVars>>

NextSync ==
    \/ SyncLoadConfigThrow \/ SyncLoadConfig \/ SyncGenScript \/ SyncLoadEngine
    \/ SyncApiInvoke \/ SyncApiThrow \/ SyncWriteFile \/ SyncWriteThrow \/ SyncStage
    \/ SyncDetectNone \/ SyncClaudeInvoke \/ SyncLog

SpecSync == InitSync /\ [][NextSync]_vars

(***************************************************************************)
(* SpecLog: logEntry and readLog calls on a log file.                      *)
(***************************************************************************)

InitLog ==
    /\ logFile \in LogFiles
    /\ logHistory = logFile.entries
    /\ logCalls = 0 /\ logError = FALSE /\ logBefore = NoCall /\ readResult = NotRead
    /\ CheckIdle /\ ParseIdle /\ SyncIdle /\ ApiIdle /\ ClaudeIdle /\ PureIdle

\* logEntry(projectRoot, {mode, ...}): the entry gets the current timestamp
LogEntry ==
    /\ logCalls < MaxLogCalls
    /\ \E mode \in Modes :
        LET entry == [timestamp |-> MAX_ENTRIES + logCalls + 1, mode |-> mode]
        IN  /\ logFile' = LogEntryFile(logFile, entry)
            /\ logError' = ReadLog(logFile).error
            /\ logBefore' = [state |-> logFile.state, entry |-> entry]
            /\ logHistory' = IF logFile.state = "json" THEN Append(logHistory, entry)
                             ELSE <<entry>>
    /\ logCalls' = logCalls + 1
    /\ UNCHANGED readResult
    /\ UNCHANGED <<checkVars, parseVars, syncVars, apiVars, claudeVars, pureVars>>

\* readLog(logFile)
ReadLogCall ==
    /\ readResult' = [called |-> TRUE, from |-> logFile.state,
                      entries |-> ReadLog(logFile).entries]
    /\ UNCHANGED <<logFile, logHistory, logCalls, logError, logBefore>>
    /\ UNCHANGED <<checkVars, parseVars, syncVars, apiVars, claudeVars, pureVars>>

NextLog == LogEntry \/ ReadLogCall

SpecLog == InitLog /\ [][NextLog]_vars

(***************************************************************************)
(* SpecEngine: one call of invokeApiEngine, or one call of                 *)
(* invokeClaudeCode.                                                       *)
(***************************************************************************)

\* the characters of the prompts given to invokeClaudeCode
PromptChars == {"a", "NUL", "CR", "LF"}

\* longest prompt given to invokeClaudeCode
MaxPromptLen == 4

\* what the subprocess call can do; a timeout is an error without stderr
ClaudeExecOutcomes == ExecOutcomes \cup {"timeout"}

InitApi ==
    /\ apc = "call"
    /\ apiEnvKey \in {"", "sk-env"}
    /\ apiDotEnv \in DotEnvFiles
    /\ apiTargets \in {<<ArchFile>>, <<ArchFile, ReadmeFile>>}
    /\ apiKey = "" /\ promptBuilt = FALSE /\ requestIssued = FALSE
    /\ apiFetch = "none" /\ apiStop = "none" /\ apiText = <<>> /\ apiResult = Undefined
    /\ timerArmed = FALSE
    /\ ClaudeIdle

InitClaude ==
    /\ cpc = "call"
    /\ cPrompt \in Texts(PromptChars, MaxPromptLen)
    /\ sanitized = <<>> /\ tempFile = NoFile /\ piped = <<>>
    /\ unlinkFailed = FALSE /\ cResult = Undefined
    /\ ApiIdle

InitEngine ==
    /\ InitApi \/ InitClaude
    /\ CheckIdle /\ ParseIdle /\ SyncIdle /\ LogIdle /\ PureIdle

\* the API key lookup: process.env, else the .env file; without a key the
\* call returns the failure at once
ApiResolveKey ==
    /\ apc = "call"
    /\ apiKey' = ResolvedApiKey(apiEnvKey, apiDotEnv)
    /\ IF ResolvedApiKey(apiEnvKey, apiDotEnv) = ""
       THEN /\ apiResult' = InvokeApiEngine(apiEnvKey, apiDotEnv, "none", "none", <<>>,
                                            Head(apiTargets), Tail(apiTargets))
            /\ apc' = "returned"
       ELSE /\ apiResult' = apiResult
            /\ apc' = "build"
    /\ UNCHANGED <<apiEnvKey, apiDotEnv, apiTargets, promptBuilt, requestIssued,
                   apiFetch, apiStop, apiText, timerArmed>>
    /\ UNCHANGED <<checkVars, parseVars, syncVars, logVars, claudeVars, pureVars>>

\* the API key lookup: .env exists but readFileSync throws; the call rejects
ApiReadEnvThrow ==
    /\ apc = "call"
    /\ apiEnvKey = "" /\ apiDotEnv.exists
    /\ apc' = "rejected"
    /\ UNCHANGED <<apiEnvKey, apiDotEnv, apiTargets, apiKey, promptBuilt, requestIssued,
                   apiFetch, apiStop, apiText, apiResult, timerArmed>>
    /\ UNCHANGED <<checkVars, parseVars, syncVars, logVars, claudeVars, pureVars>>

\* buildApiPrompt({mode, config, projectRoot, matches}) returns
ApiBuildPrompt ==
    /\ apc = "build"
    /\ promptBuilt' = TRUE
    /\ apc' = "request"
    /\ UNCHANGED <<apiEnvKey, apiDotEnv, apiTargets, apiKey, requestIssued,
                   apiFetch, apiStop, apiText, apiResult, timerArmed>>
    /\ UNCHANGED <<checkVars, parseVars, syncVars, logVars, claudeVars, pureVars>>

\* buildApiPrompt throws while reading a file; the call rejects
ApiBuildPromptThrow ==
    /\ apc = "build"
    /\ promptBuilt' = TRUE
    /\ apc' = "rejected"
    /\ UNCHANGED <<apiEnvKey, apiDotEnv, apiTargets, apiKey, requestIssued,
                   apiFetch, apiStop, apiText, apiResult, timerArmed>>
    /\ UNCHANGED <<checkVars, parseVars, syncVars, logVars, claudeVars, pureVars>>

\* the abort timer is set and fetch is called
ApiRequest ==
    /\ apc = "request"
    /\ timerArmed' = TRUE
    /\ requestIssued' = TRUE
    /\ apc' = "headers"
    /\ UNCHANGED <<apiEnvKey, apiDotEnv, apiTargets, apiKey, promptBuilt, apiFetch,
                   apiStop, apiText, apiResult>>
    /\ UNCHANGED <<checkVars, parseVars, syncVars, logVars, claudeVars, pureVars>>

\* await fetch(...) settles: the timer fires and the request is aborted, or
\* fetch throws, and the catch returns the failure; or the response arrives
\* with its status and clearTimeout(timer) runs before the body is read
ApiResponse ==
    /\ apc = "headers"
    /\ \E fetch \in FetchOutcomes :
        /\ apiFetch' = fetch
        /\ IF fetch \in {"abort", "network"}
           THEN /\ apiResult' = InvokeApiEngine(apiEnvKey, apiDotEnv, fetch, "none", <<>>,
                                                Head(apiTargets), Tail(apiTargets))
                /\ apc' = "returned"
           ELSE /\ apiResult' = apiResult
                /\ apc' = "body"
    /\ timerArmed' = FALSE
    /\ UNCHANGED <<apiEnvKey, apiDotEnv, apiTargets, apiKey, promptBuilt, requestIssued,
                   apiStop, apiText>>
    /\ UNCHANGED <<checkVars, parseVars, syncVars, logVars, claudeVars, pureVars>>

\* await response.text() or await response.json() settles, and the response
\* is handled to the returned result
ApiBody ==
    /\ apc = "body"
    /\ \E stop \in IF apiFetch = "200" THEN {"end_turn", "max_tokens"} ELSE {"none"},
          text \in IF apiFetch = "200" THEN Texts(SyncTokens, MaxRespLen) ELSE {<<>>} :
        /\ apiStop' = stop
        /\ apiText' = text
        /\ apiResult' = InvokeApiEngine(apiEnvKey, apiDotEnv, apiFetch, stop, text,
                                        Head(apiTargets), Tail(apiTargets))
    /\ apc' = "returned"
    /\ UNCHANGED <<apiEnvKey, apiDotEnv, apiTargets, apiKey, promptBuilt, requestIssued,
                   apiFetch, timerArmed>>
    /\ UNCHANGED <<checkVars, parseVars, syncVars, logVars, claudeVars, pureVars>>

NextApi ==
    \/ ApiResolveKey \/ ApiReadEnvThrow \/ ApiBuildPrompt \/ ApiBuildPromptThrow
    \/ ApiRequest \/ ApiResponse \/ ApiBody

\* sanitized = sanitizePrompt(prompt); the temp file name is chosen
ClaudeSanitize ==
    /\ cpc = "call"
    /\ sanitized' = SanitizePrompt(cPrompt)
    /\ cpc' = "write"
    /\ UNCHANGED <<cPrompt, tempFile, piped, unlinkFailed, cResult>>
    /\ UNCHANGED <<checkVars, parseVars, syncVars, logVars, apiVars, pureVars>>

\* fs.writeFileSync(tempFile, sanitized) succeeds
ClaudeWriteFile ==
    /\ cpc = "write"
    /\ tempFile' = [exists |-> TRUE, content |-> sanitized]
    /\ cpc' = "exec"
    /\ UNCHANGED <<cPrompt, sanitized, piped, unlinkFailed, cResult>>
    /\ UNCHANGED <<checkVars, parseVars, syncVars, logVars, apiVars, pureVars>>

\* fs.writeFileSync throws, having created the file (empty) or not; the
\* catch builds the result of an error without stderr
ClaudeWriteThrow ==
    /\ cpc = "write"
    /\ \E created \in BOOLEAN : tempFile' = [exists |-> created, content |-> <<>>]
    /\ cResult' = InvokeClaudeCode("unknown")
    /\ cpc' = "finally"
    /\ UNCHANGED <<cPrompt, sanitized, piped, unlinkFailed>>
    /\ UNCHANGED <<checkVars, parseVars, syncVars, logVars, apiVars, pureVars>>

\* execSync('claude -p - < tempFile') returns or throws; the result is built
ClaudeExec ==
    /\ cpc = "exec"
    /\ piped' = <<tempFile.content>>
    /\ \E exec \in ClaudeExecOutcomes : cResult' = InvokeClaudeCode(exec)
    /\ cpc' = "finally"
    /\ UNCHANGED <<cPrompt, sanitized, tempFile, unlinkFailed>>
    /\ UNCHANGED <<checkVars, parseVars, syncVars, logVars, apiVars, pureVars>>

\* the finally block runs and the call returns its result
ClaudeFinally ==
    /\ cpc = "finally"
    /\ \E unlinkThrows \in BOOLEAN :
        /\ tempFile' = Finally(tempFile, unlinkThrows)
        /\ unlinkFailed' = (tempFile.exists /\ unlinkThrows)
    /\ cpc' = "returned"
    /\ UNCHANGED <<cPrompt, sanitized, piped, cResult>>
    /\ UNCHANGED <<checkVars, parseVars, syncVars, logVars, apiVars, pureVars>>

NextClaude ==
    \/ ClaudeSanitize \/ ClaudeWriteFile \/ ClaudeWriteThrow \/ ClaudeExec
    \/ ClaudeFinally

NextEngine == NextApi \/ NextClaude

SpecEngine == InitEngine /\ [][NextEngine]_vars

(***************************************************************************)
(* SpecClassify: classifyError on null and on every error text.            *)
(***************************************************************************)

\* the words of the error texts
ErrWords == {"not", "NOT", " ", "authenticated", "Login", "unauthorized",
             "ENOTFOUND", "network", "offline", "x"}

\* longest error text
MaxErrLen == 3

ErrTexts ==
    {NullText} \cup {[null |-> FALSE, text |-> t] : t \in Texts(ErrWords, MaxErrLen)}

InitClassify ==
    /\ kpc = "call" /\ errText \in ErrTexts /\ errType = "none"
    /\ ConfigIdle /\ InitCmdIdle /\ PromptIdle
    /\ CheckIdle /\ ParseIdle /\ SyncIdle /\ LogIdle /\ ApiIdle /\ ClaudeIdle

\* classifyError(stderr) returns
ClassifyReturn ==
    /\ kpc = "call"
    /\ errType' = ClassifyError(errText)
    /\ kpc' = "returned"
    /\ UNCHANGED <<errText, configVars, initVars, promptVars>>
    /\ UNCHANGED <<checkVars, parseVars, syncVars, logVars, apiVars, claudeVars>>

NextClassify == ClassifyReturn

SpecClassify == InitClassify /\ [][NextClassify]_vars

(***************************************************************************)
(* SpecConfig: loadConfig on a missing file, a file that is not JSON, and  *)
(* every user configuration of UserConfigs.                                *)
(***************************************************************************)

\* the key k absent, or present with one of the values
Opt(k, values) == {NoFields} \cup {k :> x : x \in values}

\* the user configurations: partial at every depth, with values of the
\* default's type and of other types, and with keys the default does not have
UserConfigs ==
    {Obj(a @@ b @@ c @@ d @@ e @@ f @@ g) :
        a \in Opt("projectName", {Str("Shop"), Str(""), Null}),
        b \in Opt("techStack", {Obj(NoFields), Obj([framework |-> Str("Remix")]),
                                Obj([framework |-> Null]), Obj([runtime |-> Str("bun")]),
                                Null, Str("node"), Arr(<<"ts">>)}),
        c \in Opt("scanPaths", {Obj([prismaSchema |-> Str("prisma/schema.prisma")]),
                                Obj([prismaSchema |-> Obj([path |-> Str("schema.prisma")])])}),
        d \in Opt("categories", {Arr(<<"custom">>), Arr(<<>>), Obj([env |-> Str("x")])}),
        e \in Opt("workflows", {Obj([docsAudit |-> Obj([enabled |-> Bool("false")])]),
                                Obj([docsAudit |-> Obj([triggerPaths |-> Arr(<<"lib/**">>)])]),
                                Obj([docsAudit |-> Null]),
                                Obj([deploy |-> Obj([enabled |-> Bool("true")])]),
                                Bool("false")}),
        f \in Opt("_projectRoot", {Str("/elsewhere")}),
        g \in Opt("owner", {Str("docs-team")})}

RawFiles ==
    {[state |-> st, raw |-> Obj(NoFields)] : st \in {"missing", "invalid"}}
    \cup {[state |-> "valid", raw |-> u] : u \in UserConfigs}

InitConfig ==
    /\ lpc = "call" /\ rawFile \in RawFiles /\ loadedConfig = Null
    /\ ClassifyIdle /\ InitCmdIdle /\ PromptIdle
    /\ CheckIdle /\ ParseIdle /\ SyncIdle /\ LogIdle /\ ApiIdle /\ ClaudeIdle

\* loadConfig throws: the file does not exist, or JSON.parse throws
ConfigLoadThrow ==
    /\ lpc = "call"
    /\ rawFile.state \in {"missing", "invalid"}
    /\ lpc' = "threw"
    /\ UNCHANGED <<rawFile, loadedConfig, classifyVars, initVars, promptVars>>
    /\ UNCHANGED <<checkVars, parseVars, syncVars, logVars, apiVars, claudeVars>>

\* loadConfig returns the defaults merged with the parsed file
ConfigLoadReturn ==
    /\ lpc = "call"
    /\ rawFile.state = "valid"
    /\ loadedConfig' = LoadConfig(rawFile.raw)
    /\ lpc' = "returned"
    /\ UNCHANGED <<rawFile, classifyVars, initVars, promptVars>>
    /\ UNCHANGED <<checkVars, parseVars, syncVars, logVars, apiVars, claudeVars>>

NextConfig == ConfigLoadThrow \/ ConfigLoadReturn

SpecConfig == InitConfig /\ [][NextConfig]_vars

(***************************************************************************)
(* SpecInit: init runs, dry or not, on a project whose agent config file   *)
(* is missing or holds any content of AgentContents.                       *)
(***************************************************************************)

\* the pieces of an agent config file found on disk
AgentPieces == {"user", "NL", "MARKER", "rules-a", "rules-b"}

\* longest agent config file found on disk
MaxAgentLen == 4

\* most init runs on one project
MaxInitRuns == 2

AgentFiles ==
    {NoFile} \cup {[exists |-> TRUE, content |-> c] : c \in Texts(AgentPieces, MaxAgentLen)}

InitInit ==
    /\ agentFile \in AgentFiles /\ initRuns = 0 /\ lastRun = NoRun
    /\ ClassifyIdle /\ ConfigIdle /\ PromptIdle
    /\ CheckIdle /\ ParseIdle /\ SyncIdle /\ LogIdle /\ ApiIdle /\ ClaudeIdle

\* one run of init with --dry-run: the entries are listed, nothing is written
InitDryRun ==
    /\ initRuns < MaxInitRuns
    /\ \E rules \in {"rules-a", "rules-b"} :
        lastRun' = [dry |-> TRUE, found |-> agentFile,
                    standing |-> GenerateStandingInstructions(rules)]
    /\ initRuns' = initRuns + 1
    /\ UNCHANGED <<agentFile, classifyVars, configVars, promptVars>>
    /\ UNCHANGED <<checkVars, parseVars, syncVars, logVars, apiVars, claudeVars>>

\* one run of init: the entry for the agent config file is built and the
\* write loop handles it
InitRun ==
    /\ initRuns < MaxInitRuns
    /\ \E rules \in {"rules-a", "rules-b"} :
        /\ agentFile' = WriteEntry(agentFile, StandingEntry(agentFile, rules))
        /\ lastRun' = [dry |-> FALSE, found |-> agentFile,
                       standing |-> GenerateStandingInstructions(rules)]
    /\ initRuns' = initRuns + 1
    /\ UNCHANGED <<classifyVars, configVars, promptVars>>
    /\ UNCHANGED <<checkVars, parseVars, syncVars, logVars, apiVars, claudeVars>>

NextInit == InitDryRun \/ InitRun

SpecInit == InitInit /\ [][NextInit]_vars

(***************************************************************************)
(* SpecPrompt: buildApiPrompt in both modes, with and without matches.     *)
(***************************************************************************)

\* the kinds of changed files
SourceKinds == {"small", "limit", "big", "missing"}

\* most files of one run of small files in a match list
MaxEmbedBulk == 16

\* k small files, numbered from 1
SmallFiles(k) == [i \in 1..k |-> File("small", i)]

\* no file, or one file of each kind, numbered n
OneOrNone(n) == {<<>>} \cup {<<File(kind, n)>> : kind \in SourceKinds}

\* the match lists: a category with a file or none, a run of small files and
\* a file or none, and before or after it a category with one file or none
MatchLists ==
    {IF first THEN <<[id |-> "api-routes", files |-> a], [id |-> "env", files |-> b]>>
              ELSE <<[id |-> "env", files |-> b], [id |-> "api-routes", files |-> a]>> :
        first \in BOOLEAN,
        a \in {p \o SmallFiles(k) \o q :
                 p \in OneOrNone(101), q \in OneOrNone(102),
                 k \in {0} \cup ((MaxEmbedBulk - 3)..MaxEmbedBulk)},
        b \in OneOrNone(103)}

PromptMatches ==
    {NoMatches} \cup {[defined |-> TRUE, list |-> ms] : ms \in MatchLists}

PromptDisks ==
    {[targets |-> ts, inventories |-> n] : ts \in SUBSET {1, 2}, n \in 0..1}

InitPrompt ==
    /\ bpc = "call"
    /\ promptMode \in {"sync", "narrative"}
    /\ promptMatches \in PromptMatches
    /\ promptDisk \in PromptDisks
    /\ apiPrompt = NoPrompt
    /\ ClassifyIdle /\ ConfigIdle /\ InitCmdIdle
    /\ CheckIdle /\ ParseIdle /\ SyncIdle /\ LogIdle /\ ApiIdle /\ ClaudeIdle

\* buildApiPrompt returns
BuildApiPromptReturn ==
    /\ bpc = "call"
    /\ apiPrompt' = BuildApiPrompt(promptMode, promptMatches, promptDisk)
    /\ bpc' = "returned"
    /\ UNCHANGED <<promptMode, promptMatches, promptDisk>>
    /\ UNCHANGED <<classifyVars, configVars, initVars>>
    /\ UNCHANGED <<checkVars, parseVars, syncVars, logVars, apiVars, claudeVars>>

NextPrompt == BuildApiPromptReturn

SpecPrompt == InitPrompt /\ [][NextPrompt]_vars

(***************************************************************************)
(* Properties of categorize (SpecCat).                                     *)
(***************************************************************************)

\* the category's test accepts the path (a test that throws accepts nothing)
Accepts(cat, f) == CatTest(cat, f) = "accept"

\* the number of occurrences of p in the list s
Count(s, p) == Cardinality({i \in DOMAIN s : s[i] = p})

RECURSIVE SumLens(_)
\* the total length of the match lists
SumLens(m) == IF m = <<>> THEN 0 ELSE Len(Head(m).files) + SumLens(Tail(m))

RECURSIVE SumCounts(_, _)
\* the number of occurrences of p in all match lists together
SumCounts(m, p) == IF m = <<>> THEN 0 ELSE Count(Head(m).files, p) + SumCounts(Tail(m), p)

\* the places (a match list, or unmatched) that hold the path p
PlacesOf(p) ==
    {k \in DOMAIN matches : Count(matches[k].files, p) > 0}
    \cup (IF Count(unmatched, p) > 0 THEN {0} ELSE {})

\* the position in the category list of the category with this id
CatIndex(cats, id) == CHOOSE j \in DOMAIN cats : cats[j].id = id

\* C4: when categorize returns, every occurrence of a staged path is in
\* exactly one place, one category's match list or unmatched: the lengths of
\* the match lists and of unmatched add up to the length of the input, each
\* path is recorded as often as it occurs, and in one place only.
C4_EveryOccurrenceInOnePlace ==
    pc = "cat-returned" =>
        /\ SumLens(matches) + Len(unmatched) = Len(staged)
        /\ \A p \in FilePool :
            /\ SumCounts(matches, p) + Count(unmatched, p) = Count(staged, p)
            /\ Cardinality(PlacesOf(p)) <= 1

\* C4 witness: a path staged twice was recorded twice under one category
\* while another path went to unmatched
C4_Witness ==
    /\ pc = "cat-returned"
    /\ unmatched # <<>>
    /\ \E k \in DOMAIN matches : \E p \in FilePool :
        Count(staged, p) = 2 /\ Count(matches[k].files, p) = 2

\* C5: when categorize returns, a path is recorded only under the first
\* category, in declaration order, whose test accepts it: the category it is
\* recorded under accepts it, no earlier category does, and no other match
\* list holds it.
C5_FirstMatchWins ==
    pc = "cat-returned" =>
        \A k \in DOMAIN matches : \A n \in DOMAIN matches[k].files :
            LET f == matches[k].files[n]
                j == CatIndex(categories, matches[k].id)
            IN  /\ Accepts(categories[j], f)
                /\ \A i \in 1..(j - 1) : ~Accepts(categories[i], f)
                /\ \A k2 \in DOMAIN matches : k2 # k => Count(matches[k2].files, f) = 0

\* C5 witness: two categories accept a staged path and categorize recorded it
C5_Witness ==
    /\ pc = "cat-returned"
    /\ \E n \in DOMAIN staged : \E i, j \in DOMAIN categories :
        /\ i < j
        /\ Accepts(categories[i], staged[n])
        /\ Accepts(categories[j], staged[n])
        /\ HasKey(matches, categories[i].id)

(***************************************************************************)
(* Properties of the pre-commit check script (SpecCheck).                  *)
(***************************************************************************)

\* C1: every run of the script ends with exit status 0.
C1_AlwaysExitsZero == pc = "exited" => exitCode = 0

\* some staged path is accepted by some category
AnyPathMatches ==
    \E n \in DOMAIN staged : \E j \in DOMAIN categories : Accepts(categories[j], staged[n])

\* C6: a run on a non-empty staged list takes exactly one of the three
\* outcomes: silent-pass iff no staged path matches a category, positive-note
\* iff some path matches and a documentation file is staged, needs-remediation
\* iff some path matches and no documentation file is staged.
C6_ThreeWayOutcome ==
    (pc = "exited" /\ staged # <<>>) =>
        /\ outcome \in {"silent-pass", "positive-note", "needs-remediation"}
        /\ outcome = "silent-pass" <=> ~AnyPathMatches
        /\ outcome = "positive-note" <=> (AnyPathMatches /\ docFilesStaged(staged))
        /\ outcome = "needs-remediation" <=> (AnyPathMatches /\ ~docFilesStaged(staged))

\* the prompt lists the path f in the block headed by the category name
ListedUnder(lines, name, f) ==
    \E i, j \in DOMAIN lines :
        /\ i < j
        /\ lines[i] = Line("changed", name, <<>>, 0)
        /\ lines[j].t = "read" /\ lines[j].file = f
        /\ \A k \in (i + 1)..(j - 1) : lines[k].t = "read"

\* C7 as stated: whenever the outcome is needs-remediation, the printed
\* prompt lists every matched path under its category's name.
C7_PromptListsEveryPath ==
    outcome = "needs-remediation" =>
        \A k \in DOMAIN matches : \A n \in DOMAIN matches[k].files :
            ListedUnder(prompt,
                        categories[CatIndex(categories, matches[k].id)].name,
                        matches[k].files[n])

\* C7 as amended: whenever the outcome is needs-remediation, the printed
\* prompt lists, under each category's name, exactly the first 15 (PromptCap)
\* of the paths matched to it, all of them when there are at most 15; the
\* paths after the 15th are not listed.
C7_PromptListsFirstPaths ==
    outcome = "needs-remediation" =>
        \A k \in DOMAIN matches : \A n \in DOMAIN matches[k].files :
            ListedUnder(prompt,
                        categories[CatIndex(categories, matches[k].id)].name,
                        matches[k].files[n])
            <=> n <= PromptCap

\* C7 witness: the prompt was printed for a category with more paths than
\* the prompt lists
C7_Witness ==
    /\ outcome = "needs-remediation"
    /\ prompt # <<>>
    /\ \E k \in DOMAIN matches : Len(matches[k].files) > PromptCap

(***************************************************************************)
(* Properties of parseApiResponse (SpecParse).                             *)
(***************************************************************************)

\* C3: every file that parseApiResponse returns has a path of the allowlist
\* it was given, whatever blocks the text contains.
C3_FilesWithinAllowlist ==
    ppc = "returned" =>
        \A i \in DOMAIN parsed.files : Includes(expectedPaths, parsed.files[i].path)

\* C3 witness: the parser returned a file for a text that also held a block
\* with a path outside the allowlist
C3_Witness ==
    /\ ppc = "returned"
    /\ Len(parsed.files) >= 1
    /\ \E i \in DOMAIN parsed.warnings : parsed.warnings[i].w = "unexpected"

(***************************************************************************)
(* Properties of the full-sync orchestrator (SpecSync).                    *)
(***************************************************************************)

\* C2: with the api engine, every path that sync writes to disk is a member
\* of the allowlist [architectureFile] ++ additionalNarrativeTargets.
C2_WritesOnlyAllowlisted ==
    \A i \in DOMAIN written : Includes(syncTargets, written[i])

\* C2 witness: sync wrote a file from a response that also held a start tag
\* with a path outside the allowlist
C2_Witness ==
    /\ syncEngine = "api"
    /\ written # <<>>
    /\ \E i \in DOMAIN result.output :
        result.output[i].t = "open" /\ ~Includes(syncTargets, result.output[i].path)

\* C10: every run of sync that returns has handed exactly one entry, of mode
\* sync, to the audit log.
C10_OneAuditEntryPerRun ==
    spc = "returned" => (Len(auditEntries) = 1 /\ auditEntries[1].mode = "sync")

(***************************************************************************)
(* Properties of the audit log (SpecLog).                                  *)
(***************************************************************************)

\* the last n elements of the list s, all of it when it is shorter
LastN(s, n) == IF Len(s) > n THEN SubSeq(s, Len(s) - n + 1, Len(s)) ELSE s

\* the log is the most recent min(n, MAX_ENTRIES) of the n entries appended,
\* in append order, the newest last
LogHoldsMostRecent ==
    logFile.state = "json" =>
        /\ Len(logFile.entries) <= MAX_ENTRIES
        /\ logFile.entries = LastN(logHistory, MAX_ENTRIES)
        /\ logCalls > 0 => logFile.entries[Len(logFile.entries)] = logBefore.entry

\* a logEntry call on a log of MAX_ENTRIES entries drops the oldest entry
\* and nothing else
EvictsOldest ==
    (logCalls' = logCalls + 1 /\ logFile.state = "json"
        /\ Len(logFile.entries) = MAX_ENTRIES)
    => logFile'.entries = Tail(logFile.entries) \o <<logBefore'.entry>>

\* C8: after any sequence of logEntry calls the log holds exactly the most
\* recent min(n, 500) entries in append order, never more than 500, the newest
\* last; a call on a log of 500 entries evicts exactly the oldest one.
C8_LogKeepsMostRecent == [](LogHoldsMostRecent) /\ [][EvictsOldest]_vars

\* C8 witness: a logEntry call was made on a full log and an entry was evicted
C8_Witness ==
    /\ logCalls >= 2
    /\ logBefore.state = "json"
    /\ Len(logFile.entries) = MAX_ENTRIES
    /\ Len(logHistory) > MAX_ENTRIES

\* C9: a logEntry call that finds the log file missing or not valid JSON
\* raises no error and leaves a JSON array holding exactly the new entry;
\* readLog on a missing file returns the empty list.
C9_MissingOrCorruptReadsEmpty ==
    /\ logBefore.state \in {"missing", "corrupt"} =>
        /\ ~logError
        /\ logFile = LogFile("json", <<logBefore.entry>>)
    /\ (readResult.called /\ readResult.from = "missing") => readResult.entries = <<>>

\* C9 witness: a logEntry call found a corrupt file
C9_Witness == logBefore.state = "corrupt" /\ logCalls = 1

(***************************************************************************)
(* Properties of the engine invoker (SpecEngine).                          *)
(***************************************************************************)

\* a returned result has success false exactly when error is a non-empty
\* string, and error null when success is true
ResultContract(r) ==
    /\ r.set
    /\ r.success => r.error = ""
    /\ ~r.success => r.error # ""

\* C11: every result returned by invokeClaudeCode or invokeApiEngine has
\* success false if and only if error is a non-empty string.
C11_FailureIffErrorMessage ==
    /\ apc = "returned" => ResultContract(apiResult)
    /\ cpc = "returned" => ResultContract(cResult)

\* C11 witness: invokeClaudeCode returned a failure after the subprocess ran
C11_Witness == cpc = "returned" /\ piped # <<>> /\ ~cResult.success

\* the index of the first KEY=VALUE line of lines whose key is name, 0 if none
FirstKeyLine(lines, name) ==
    LET S == {i \in 1..Len(lines) : lines[i].form = "kv" /\ lines[i].key = name}
    IN  IF S = {} THEN 0 ELSE CHOOSE i \in S : \A j \in S : i <= j

\* the credential of the call: the environment variable when set and
\* non-empty, otherwise the value of the first matching line of .env
Credential ==
    IF apiEnvKey # "" THEN apiEnvKey
    ELSE IF apiDotEnv.exists /\ FirstKeyLine(apiDotEnv.lines, EnvVarName) # 0
    THEN apiDotEnv.lines[FirstKeyLine(apiDotEnv.lines, EnvVarName)].value
    ELSE ""

KeyNotFoundMessage ==
    "API key not found. Set ANTHROPIC_API_KEY in your environment or .env file."

\* C12: the remote engine uses the environment variable when it is set and
\* non-empty, otherwise the first KEY=VALUE line of .env whose key is the
\* variable name; when neither gives a non-empty value the call returns the
\* failure that names the variable, having built no prompt and issued no request.
C12_CredentialOrderAndFailFast ==
    apc \in {"build", "request", "headers", "body", "returned"} =>
        /\ apiKey = Credential
        /\ (promptBuilt \/ requestIssued) => Credential # ""
        /\ Credential = "" =>
            /\ apc = "returned"
            /\ ~apiResult.success
            /\ apiResult.error = KeyNotFoundMessage
            /\ ~promptBuilt /\ ~requestIssued

\* C12 witness: the key came from the first of two matching lines of .env and
\* the request was issued
C12_Witness ==
    /\ apc = "returned" /\ apiEnvKey = "" /\ requestIssued
    /\ Cardinality({i \in DOMAIN apiDotEnv.lines :
                      apiDotEnv.lines[i].form = "kv"
                      /\ apiDotEnv.lines[i].key = EnvVarName}) = 2

TruncationMessage ==
    "Response truncated. Try reducing file count or increasing maxTokens."

\* the text holds a start tag with a path of the allowlist, closed by an end
\* tag right behind it or behind one piece of content
HasAllowedBlock(text, allow) ==
    \E i \in DOMAIN text :
        /\ text[i].t = "open" /\ Includes(allow, text[i].path)
        /\ \/ (i + 1 \in DOMAIN text /\ text[i + 1].t = "close")
           \/ (i + 2 \in DOMAIN text /\ text[i + 1].t = "text" /\ text[i + 2].t = "close")

\* C13: a 2xx response whose stop reason is not end_turn yields success false
\* with the truncation message and no updated files, whatever its text holds.
C13_TruncatedResponseFails ==
    (apc = "returned" /\ apiFetch = "200" /\ apiStop # "end_turn") =>
        /\ ~apiResult.success
        /\ apiResult.error = TruncationMessage
        /\ apiResult.files = <<>>

\* C13 witness: a truncated response that holds the sentinel and an allowed
\* file block
C13_Witness ==
    /\ apc = "returned" /\ apiFetch = "200" /\ apiStop = "max_tokens"
    /\ \E i \in DOMAIN apiText : apiText[i].t = "sentinel"
    /\ HasAllowedBlock(apiText, apiTargets)

\* the position of the first end tag behind position i, 0 if there is none
CloseAfter(text, i) ==
    LET S == {j \in (i + 1)..Len(text) : text[j].t = "close"}
    IN  IF S = {} THEN 0 ELSE CHOOSE j \in S : \A k \in S : j <= k

\* every start tag of the text is closed before the next start tag
WellFormedBlocks(text) ==
    \A i \in DOMAIN text :
        text[i].t = "open" =>
            /\ CloseAfter(text, i) # 0
            /\ \A j \in (i + 1)..(CloseAfter(text, i) - 1) : text[j].t # "open"

\* the ascending list of the elements of a finite set of numbers
RECURSIVE Ascending(_)
Ascending(S) ==
    IF S = {} THEN <<>>
    ELSE LET m == CHOOSE x \in S : \A y \in S : x <= y
         IN  <<m>> \o Ascending(S \ {m})

\* the blocks of a well-formed text whose path is in the allowlist, as
\* {path, content}, in order of appearance
AllowedBlocks(text, allow) ==
    LET at == Ascending({i \in DOMAIN text :
                            text[i].t = "open" /\ Includes(allow, text[i].path)})
    IN  [k \in DOMAIN at |->
            [path |-> text[at[k]].path,
             content |-> SubSeq(text, at[k] + 1, CloseAfter(text, at[k]) - 1)]]

\* a 2xx response with stop reason end_turn was handled and the call returned
CompleteResponse == apc = "returned" /\ apiFetch = "200" /\ apiStop = "end_turn"

SentinelPresent == \E i \in DOMAIN apiText : apiText[i].t = "sentinel"

C15_SentinelMeansNoUpdates ==
    (CompleteResponse /\ SentinelPresent) =>
        /\ apiResult.success
        /\ apiResult.files = <<>>
        /\ apiResult.error = ""

\* C15 witness: a complete response with the sentinel behind other content
C15_Witness ==
    /\ CompleteResponse /\ SentinelPresent
    /\ Len(apiText) >= 2 /\ apiText[1].t = "text"

(***************************************************************************)
(* Further properties of parseApiResponse (SpecParse).                     *)
(***************************************************************************)

NoMarkersWarned == \E i \in DOMAIN parsed.warnings : parsed.warnings[i].w = "no-markers"

\* C16: parseApiResponse records the warning that no update markers were
\* found exactly when it found no allowlisted block and the text does not
\* hold the no-changes-needed sentinel.
C16_NoMarkersWarningUnlessSentinel ==
    ppc = "returned" =>
        (NoMarkersWarned <=>
            (Len(parsed.files) = 0
             /\ ~\E i \in DOMAIN responseText : responseText[i].t = "sentinel"))

RECURSIVE Scan(_, _, _, _)
\* the blocks met when reading the text token by token from position i: a
\* start tag read outside a block opens one (at position from, 0 outside), a
\* start tag read inside a block is content, an end tag read inside a block
\* closes it; a block that is never closed is no block
Scan(text, i, from, acc) ==
    IF i > Len(text) THEN acc
    ELSE IF from = 0
         THEN Scan(text, i + 1, IF text[i].t = "open" THEN i ELSE 0, acc)
         ELSE IF text[i].t = "close"
              THEN Scan(text, i + 1, 0,
                        Append(acc, [path |-> text[from].path,
                                     content |-> SubSeq(text, from + 1, i - 1)]))
              ELSE Scan(text, i + 1, from, acc)

ScannedBlocks(text) == Scan(text, 1, 0, <<>>)

\* the paths of the 'unexpected file' warnings, in order
UnexpectedPaths(warnings) ==
    LET u == SelectSeq(warnings, LAMBDA x : x.w = "unexpected")
    IN  [k \in DOMAIN u |-> u[k].path]

\* the start tags that are closed before the next start tag
WellFormedAt(text) ==
    {i \in DOMAIN text :
        /\ text[i].t = "open"
        /\ CloseAfter(text, i) # 0
        /\ \A j \in (i + 1)..(CloseAfter(text, i) - 1) : text[j].t # "open"}

\* C17 as stated: for any text, every start tag that is closed before the
\* next start tag gives one file when its path is allowlisted and one
\* 'unexpected file' warning when it is not.
C17_EveryWellFormedBlockOnce ==
    ppc = "returned" =>
        /\ Len(parsed.files) =
             Cardinality({i \in WellFormedAt(responseText) :
                             Includes(expectedPaths, responseText[i].path)})
        /\ Len(UnexpectedPaths(parsed.warnings)) =
             Cardinality({i \in WellFormedAt(responseText) :
                             ~Includes(expectedPaths, responseText[i].path)})

\* C17 amended: the blocks are those met reading left to right, from a start
\* tag to the first end tag behind it (a start tag inside is content); each
\* gives one file, in order, when its path is allowlisted and one 'unexpected
\* file' warning, in order, when it is not. In a text whose start tags are each
\* closed before the next one these are all the blocks.
C17_EveryScannedBlockOnce ==
    ppc = "returned" =>
        /\ parsed.files = SelectSeq(ScannedBlocks(responseText),
                                    LAMBDA b : Includes(expectedPaths, b.path))
        /\ UnexpectedPaths(parsed.warnings) =
             LET d == SelectSeq(ScannedBlocks(responseText),
                                LAMBDA b : ~Includes(expectedPaths, b.path))
             IN  [k \in DOMAIN d |-> d[k].path]
        /\ WellFormedBlocks(responseText) =>
             /\ parsed.files = AllowedBlocks(responseText, expectedPaths)
             /\ Len(parsed.files) + Len(UnexpectedPaths(parsed.warnings))
                  = Cardinality({i \in DOMAIN responseText : responseText[i].t = "open"})

\* C17 witness: one allowed block and one disallowed block gave exactly one
\* file and exactly one warning
C17_Witness ==
    /\ ppc = "returned" /\ WellFormedBlocks(responseText)
    /\ Len(ScannedBlocks(responseText)) = 2
    /\ Len(parsed.files) = 1 /\ Len(parsed.warnings) = 1
    /\ parsed.warnings[1].w = "unexpected"

(***************************************************************************)
(* Properties of invokeClaudeCode and sanitizePrompt (SpecEngine).         *)
(***************************************************************************)

Clean(s) ==
    /\ \A i \in DOMAIN s : s[i] # "NUL"
    /\ \A i \in 1..(Len(s) - 1) : ~(s[i] = "CR" /\ s[i + 1] = "LF")

\* C19: for every prompt, the text that invokeClaudeCode writes to the
\* temporary file and pipes to the subprocess holds no null byte and no
\* CR LF sequence.
C19_SanitizedTextIsClean ==
    /\ cpc \in {"write", "exec", "finally", "returned"} => Clean(sanitized)
    /\ tempFile.exists => Clean(tempFile.content)
    /\ \A i \in DOMAIN piped : Clean(piped[i])

\* C20: sanitizePrompt returns a prompt without null byte and without CR LF
\* sequence unchanged.
C20_CleanPromptUnchanged ==
    (cpc \in {"write", "exec", "finally", "returned"} /\ Clean(cPrompt))
    => sanitized = cPrompt

\* C20 witness: a prompt with a lone carriage return and a line feed, not
\* next to each other in that order, was sanitized and piped
C20_Witness ==
    /\ cpc = "returned" /\ Clean(cPrompt) /\ piped = <<cPrompt>>
    /\ \E i, j \in DOMAIN cPrompt : cPrompt[i] = "CR" /\ cPrompt[j] = "LF"

(***************************************************************************)
(* Properties of classifyError (SpecClassify).                             *)
(***************************************************************************)

\* the text holds, in any letter case, one of the authentication markers
\* 'not authenticated', 'login', 'unauthorized'
HasAuthMarker(t) ==
    \E i \in DOMAIN t :
        \/ LowerWord(t[i]) \in {"login", "unauthorized"}
        \/ /\ i + 2 \in DOMAIN t
           /\ LowerWord(t[i]) = "not" /\ t[i + 1] = " " /\ t[i + 2] = "authenticated"

\* the text holds, in any letter case, one of the connectivity markers
\* 'enotfound', 'network', 'offline'
HasNetMarker(t) ==
    \E i \in DOMAIN t : LowerWord(t[i]) \in {"enotfound", "network", "offline"}

\* C21: classifyError returns auth when the text holds an authentication
\* marker in any letter case, otherwise offline when it holds a connectivity
\* marker, otherwise unknown; null and the empty text give unknown.
C21_ClassifyByMarkers ==
    kpc = "returned" =>
        /\ errType \in {"auth", "offline", "unknown"}
        /\ errType = "auth" <=> (~errText.null /\ HasAuthMarker(errText.text))
        /\ errType = "offline" <=>
             (~errText.null /\ ~HasAuthMarker(errText.text) /\ HasNetMarker(errText.text))
        /\ (errText.null \/ errText.text = <<>>) => errType = "unknown"

\* C21 witness: a text with a marker of each kind, the authentication marker
\* in upper case and behind the connectivity marker, was classified
C21_Witness ==
    /\ kpc = "returned" /\ ~errText.null
    /\ errText.text = <<"offline", "Login">>
    /\ errType = "auth"

(***************************************************************************)
(* Properties of the step order of sync (SpecSync).                        *)
(***************************************************************************)

\* the paths of a list of files
PathsOf(files) == [i \in DOMAIN files |-> files[i].path]

\* every generator script of this run has been attempted
GeneratorsDone == genTotal >= 2 /\ genRun = genTotal

\* a step of the run in which the engine is invoked
EngineInvoked == ~result.set /\ result'.set

\* a step of the run in which a documentation file is written
FileWritten == written' # written

\* a step of the run in which the changes are staged
ChangesStaged == ~gitStaged /\ gitStaged'

\* a step of the run in which the audit entry is appended
EntryAppended == auditEntries' # auditEntries

\* C22: in a sync run every generator has been attempted before the engine is
\* invoked, files are written only after the engine returned a success
\* result, staging happens only after every returned file is written, and the
\* audit entry is appended after applying and staging, as the last step.
C22_StepOrder ==
    /\ [][EngineInvoked => GeneratorsDone]_vars
    /\ [][FileWritten => result.set /\ result.success
                         /\ written' = Append(written, Head(toWrite).path)]_vars
    /\ [][ChangesStaged => toWrite = <<>> /\ written = PathsOf(result.files)]_vars
    /\ [][EntryAppended => toWrite = <<>> /\ ~FileWritten /\ ~ChangesStaged
                            /\ result.set /\ spc' = "returned"]_vars
    /\ [](auditEntries # <<>> => spc = "returned")
    /\ [][spc = "returned" => UNCHANGED syncVars]_vars

\* C22 witness: a run that ran three generators, wrote two files, staged them
\* and appended its entry
C22_Witness ==
    /\ spc = "returned" /\ genRun = 3 /\ Len(written) = 2 /\ gitStaged
    /\ Len(auditEntries) = 1

(***************************************************************************)
(* Properties of the fallback of sync (SpecSync).                          *)
(***************************************************************************)

\* C23: a sync run whose engine invocation ended in failure of any kind has
\* printed the manual sync prompt when it returns, and the run returns.
C23_FailurePrintsManualPrompt ==
    /\ (spc = "returned" /\ result.set /\ ~result.success) => manualPrompts >= 1
    /\ (result.set /\ ~result.success) => spc # "threw"

(***************************************************************************)
(* Properties of invalid patterns in the check script (SpecCheck).         *)
(***************************************************************************)

\* some category of the loaded configuration has pattern kind regex and a
\* pattern that is not a valid regular expression
InvalidPattern ==
    \E j \in DOMAIN categories :
        categories[j].patternType = "regex" /\ ~RegExpCompiles(categories[j].filePattern)

\* the catch around main() wrote its message to stderr
ErrorPrinted == outcome = "error" /\ verbose

\* C24: a run whose configuration holds a regex category with an invalid
\* pattern reports the error: it never ends without having printed it, and
\* never with one of the outcomes of a run in which the rules were applied.
C24_InvalidPatternReported ==
    (pc = "exited" /\ InvalidPattern) => ErrorPrinted

(***************************************************************************)
(* Properties of loadConfig (SpecConfig).                                  *)
(***************************************************************************)

RECURSIVE KeyPaths(_)
\* the key paths of a value: every non-empty list of keys that leads from it
\* to a value
KeyPaths(x) ==
    IF x.kind # "object" THEN {}
    ELSE UNION {{<<k>>} \cup {<<k>> \o q : q \in KeyPaths(x.fields[k])} :
                k \in DOMAIN x.fields}

RECURSIVE Has(_, _)
\* the key path p leads to a value of x
Has(x, p) ==
    \/ p = <<>>
    \/ /\ x.kind = "object" /\ Head(p) \in DOMAIN x.fields
       /\ Has(x.fields[Head(p)], Tail(p))

RECURSIVE At(_, _)
\* the value of x at the key path p
At(x, p) == IF p = <<>> THEN x ELSE At(x.fields[Head(p)], Tail(p))

\* the user supplied the key path p
Supplied(p) == Has(rawFile.raw, p)

\* at p the default and the user's value are both objects: they are merged
MergedAt(p) ==
    /\ IsPlainObject(At(rawFile.raw, p))
    /\ Has(DEFAULT_CONFIG, p) /\ IsPlainObject(At(DEFAULT_CONFIG, p))

\* the user supplied, at an ancestor of p, a value that is not an object
ReplacedAbove(p) ==
    \E n \in 1..(Len(p) - 1) :
        /\ Supplied(SubSeq(p, 1, n))
        /\ ~IsPlainObject(At(rawFile.raw, SubSeq(p, 1, n)))

\* the keys loadConfig sets itself
SetByLoader == {<<"_projectRoot">>, <<"_configPath">>}

\* C25 (as stated): in the config loadConfig returns, every key path of
\* DEFAULT_CONFIG the user did not supply has the default's value, and every
\* key path the user supplied has the user's value, objects being merged.
C25_DefaultsKeptUserWins ==
    lpc = "returned" =>
        /\ \A p \in KeyPaths(DEFAULT_CONFIG) :
             ~Supplied(p) =>
                Has(loadedConfig, p) /\ At(loadedConfig, p) = At(DEFAULT_CONFIG, p)
        /\ \A p \in KeyPaths(rawFile.raw) :
             /\ Has(loadedConfig, p)
             /\ ~MergedAt(p) => At(loadedConfig, p) = At(rawFile.raw, p)

\* C25 (amended): every key path the user supplied, other than the two keys
\* loadConfig sets itself, has the user's value, objects being merged; every
\* key path of DEFAULT_CONFIG the user did not supply has the default's
\* value, unless the user supplied a value that is not an object at one of
\* its ancestors: then the path is absent.
C25_DefaultsKeptUnlessReplaced ==
    lpc = "returned" =>
        /\ \A p \in KeyPaths(DEFAULT_CONFIG) :
             ~Supplied(p) =>
                IF ReplacedAbove(p) THEN ~Has(loadedConfig, p)
                ELSE Has(loadedConfig, p) /\ At(loadedConfig, p) = At(DEFAULT_CONFIG, p)
        /\ \A p \in KeyPaths(rawFile.raw) \ SetByLoader :
             /\ Has(loadedConfig, p)
             /\ ~MergedAt(p) => At(loadedConfig, p) = At(rawFile.raw, p)
        /\ \A p \in SetByLoader :
             Has(loadedConfig, p) /\ At(loadedConfig, p).kind = "string"
        /\ KeyPaths(loadedConfig) \subseteq
             KeyPaths(DEFAULT_CONFIG) \cup KeyPaths(rawFile.raw) \cup SetByLoader

\* C25 witness: a configuration that sets one field two levels down and a
\* key of its own was loaded, and the sibling defaults are there
C25_Witness ==
    /\ lpc = "returned"
    /\ rawFile.raw.fields = [workflows |-> Obj([docsAudit |-> Obj([enabled |-> Bool("false")])]),
                             owner |-> Str("docs-team")]
    /\ At(loadedConfig, <<"workflows", "docsAudit", "enabled">>) = Bool("false")
    /\ At(loadedConfig, <<"workflows", "docsAudit", "triggerPaths">>).kind = "array"
    /\ At(loadedConfig, <<"owner">>) = Str("docs-team")

(***************************************************************************)
(* Properties of the timeout of invokeApiEngine (SpecEngine).              *)
(***************************************************************************)

\* the call is waiting for the remote side: for the response, or for its body
Waiting == apc \in {"headers", "body"}

\* C26: while a remote engine call waits for any part of the response the
\* abort timer is armed, so that a response that is not complete within the
\* timeout ends the call with the timeout failure.
C26_TimerArmedWhileWaiting == Waiting => timerArmed

(***************************************************************************)
(* Properties of the standing instructions written by init (SpecInit).     *)
(***************************************************************************)

\* the content from its first heading onward
FromMarker(content) == SubSeq(content, MarkerIndex(content), Len(content))

\* C27: after a run of init that is not a dry run, on a project whose agent
\* config file held the heading, the file holds the heading exactly once and
\* from the heading onward it is the standing instructions the run generated
\* (with the newline that ends the file).
C27_HeadingOnceAndFresh ==
    (initRuns > 0 /\ ~lastRun.dry /\ lastRun.found.exists
        /\ MarkerIndex(lastRun.found.content) # 0) =>
        /\ Count(agentFile.content, "MARKER") = 1
        /\ FromMarker(agentFile.content) \in {lastRun.standing, lastRun.standing \o <<"NL">>}

(***************************************************************************)
(* Properties of the blocks of the reference prompt (SpecCheck).           *)
(***************************************************************************)

\* the categories with matches, in declaration order
MatchedCategories == SelectSeq(categories, LAMBDA c : HasKey(matches, c.id))

\* the positions of the 'Changed <name>:' lines of the prompt
HeaderPositions == {i \in DOMAIN prompt : prompt[i].t = "changed"}

\* the k-th smallest member of a set of numbers
Kth(S, k) == CHOOSE i \in S : Cardinality({j \in S : j < i}) = k - 1

RECURSIVE SumSeq(_)
\* the sum of a list of numbers
SumSeq(s) == IF s = <<>> THEN 0 ELSE Head(s) + SumSeq(Tail(s))

\* the lines of the prompt of one kind
LinesOfKind(t) == {i \in DOMAIN prompt : prompt[i].t = t}

\* C28: the reference prompt has one 'Changed <name>' block for each category
\* with matches, in declaration order; the block of a category with n matched
\* paths lists the first min(n, 15) of them in order, then has the line
\* '(and n-15 more files)' exactly when n > 15.
C28_BlocksInOrderWithCap ==
    outcome = "needs-remediation" =>
        LET sel == MatchedCategories
        IN  /\ Cardinality(HeaderPositions) = Len(sel)
            /\ \A k \in 1..Len(sel) :
                 LET i == Kth(HeaderPositions, k)
                     files == FilesOf(matches, sel[k].id)
                     n == Len(files)
                     shown == IF n < 15 THEN n ELSE 15
                     end == i + shown + (IF n > 15 THEN 2 ELSE 1)
                 IN  /\ prompt[i] = Line("changed", sel[k].name, <<>>, 0)
                     /\ \A j \in 1..shown :
                          prompt[i + j] = Line("read", sel[k].docTarget, files[j], 0)
                     /\ n > 15 => prompt[i + shown + 1] = Line("more", "", <<>>, n - 15)
                     /\ prompt[end].t = "blank"
                     /\ k < Len(sel) => Kth(HeaderPositions, k + 1) = end + 1
            /\ Cardinality(LinesOfKind("more")) =
                 Cardinality({k \in 1..Len(sel) : Len(FilesOf(matches, sel[k].id)) > 15})
            /\ Cardinality(LinesOfKind("read")) =
                 SumSeq([k \in 1..Len(sel) |->
                              IF Len(FilesOf(matches, sel[k].id)) < 15
                              THEN Len(FilesOf(matches, sel[k].id)) ELSE 15])

\* C28 witness: a prompt with the blocks of two categories, the second one
\* in the declaration first in the prompt too, and one block over the cap
C28_Witness ==
    /\ outcome = "needs-remediation"
    /\ Len(MatchedCategories) = 2
    /\ Cardinality(LinesOfKind("more")) = 1
    /\ \E k \in 1..2 : Len(FilesOf(matches, MatchedCategories[k].id)) < 15

(***************************************************************************)
(* Properties of the result of categorize (SpecCat).                       *)
(***************************************************************************)

\* the category at position j is the first that accepts the path f
FirstAccepting(j, f) ==
    Accepts(categories[j], f) /\ \A i \in 1..(j - 1) : ~Accepts(categories[i], f)

\* the input paths assigned to the category at position j, in input order
AssignedTo(j) == SelectSeq(staged, LAMBDA f : FirstAccepting(j, f))

\* the input paths no category accepts, in input order
AcceptedByNone ==
    SelectSeq(staged, LAMBDA f : \A j \in DOMAIN categories : ~Accepts(categories[j], f))

\* C30: in the result of categorize a category id is a key of matches iff
\* some input path was assigned to it, no key maps to an empty list, every
\* match list and unmatched hold their paths in input order, and matches has
\* a key iff some path matched some category.
C30_KeysIffAssignedInInputOrder ==
    pc = "cat-returned" =>
        /\ \A k \in DOMAIN matches : matches[k].files # <<>>
        /\ \A k1, k2 \in DOMAIN matches : matches[k1].id = matches[k2].id => k1 = k2
        /\ \A k \in DOMAIN matches : \E j \in DOMAIN categories : categories[j].id = matches[k].id
        /\ \A j \in DOMAIN categories :
            /\ HasKey(matches, categories[j].id) <=> AssignedTo(j) # <<>>
            /\ HasKey(matches, categories[j].id) =>
                 FilesOf(matches, categories[j].id) = AssignedTo(j)
        /\ unmatched = AcceptedByNone
        /\ hasDocRelevant(matches) <=>
             \E n \in DOMAIN staged : \E j \in DOMAIN categories : Accepts(categories[j], staged[n])

\* C30 witness: one category got two different paths that were not adjacent
\* in the input, another category of the configuration got none
C30_Witness ==
    /\ pc = "cat-returned"
    /\ Len(staged) = 3
    /\ \E k \in DOMAIN matches :
        /\ Len(matches[k].files) = 2
        /\ matches[k].files = <<staged[1], staged[3]>>
        /\ staged[1] # staged[3]
    /\ \E j \in DOMAIN categories : ~HasKey(matches, categories[j].id)

(***************************************************************************)
(* Properties of the files buildApiPrompt embeds (SpecPrompt).             *)
(***************************************************************************)

RECURSIVE AllFiles(_)
\* the changed files of all categories, in the order of the match lists
AllFiles(ms) == IF ms = <<>> THEN <<>> ELSE Head(ms).files \o AllFiles(Tail(ms))

\* the file exists and has at most 50 KB
Embeddable(f) == f.kind # "missing" /\ StatSize(f) <= 50 * 1024

\* the <file> blocks of the user message under 'Changed Source Files'
EmbeddedSources == SelectSeq(apiPrompt.user, LAMBDA x : x.t = "file" /\ x.name = "source")

\* C29: in narrative mode buildApiPrompt embeds the first 15 changed files
\* that exist and have at most 50 KB, in the order of the match lists, each
\* with its full content; missing files and larger files are skipped and do
\* not count; without matches, and in sync mode, no changed file is embedded.
C29_EmbedsFirstFifteenThatFit ==
    bpc = "returned" =>
        LET fit == IF promptMode = "narrative" /\ promptMatches.defined
                   THEN SelectSeq(AllFiles(promptMatches.list), Embeddable)
                   ELSE <<>>
            shown == IF Len(fit) < 15 THEN Len(fit) ELSE 15
        IN  /\ Len(apiPrompt.sourceContents) = shown
            /\ \A i \in 1..shown :
                /\ apiPrompt.sourceContents[i].path = fit[i]
                /\ apiPrompt.sourceContents[i].content.of = fit[i]
                /\ apiPrompt.sourceContents[i].content.bytes = StatSize(fit[i])
            /\ Len(EmbeddedSources) = shown
            /\ \A i \in 1..shown :
                /\ EmbeddedSources[i].file = apiPrompt.sourceContents[i].path
                /\ EmbeddedSources[i].content = apiPrompt.sourceContents[i].content
            /\ promptMode = "sync" => EmbeddedSources = <<>>

\* C29 witness: a narrative prompt whose first category starts with a
\* missing file and has sixteen files that fit: fifteen are embedded, the
\* sixteenth and the file of the next category are not
C29_Witness ==
    /\ bpc = "returned" /\ promptMode = "narrative" /\ promptMatches.defined
    /\ Len(apiPrompt.sourceContents) = 15
    /\ Head(promptMatches.list).files # <<>>
    /\ Head(promptMatches.list).files[1].kind = "missing"
    /\ Len(SelectSeq(Head(promptMatches.list).files, Embeddable)) >= 16
    /\ Len(SelectSeq(promptMatches.list[2].files, Embeddable)) = 1

====
